---- MODULE Spec2Model ----
(***************************************************************************)
(* Verification model of crispy: the script pipeline                       *)
(* (crispy_script_execute), the plugin engine's hook dispatch and the      *)
(* file cache.  Strings are sequences of one-character strings; a NULL     *)
(* pointer to a string is the distinguished value Null.                    *)
(***************************************************************************)
EXTENDS Integers, Sequences, FiniteSets, TLC

(***************************************************************************)
(* Bounds of the model                                                     *)
(***************************************************************************)
\* number of plugins that can be loaded into the engine
NumPlugins == 2
\* number of script records created (driver invocations) in one behaviour
MaxInvocations == 2
\* the wall clock (whole seconds, as st_mtime) runs from 0 to MaxClock
MaxClock == 2

(***************************************************************************)
(* Strings                                                                 *)
(***************************************************************************)
Null == <<"NULL">>
EmptyStr == <<>>
SP == " "
TAB == "\t"
NL == "\n"
QUOTE == "\""
NUL == "\\0"

IsWs(c) == c = SP \/ c = TAB \/ c = NL

\* g_str_has_prefix
HasPrefix(s, p) == Len(s) >= Len(p) /\ SubSeq(s, 1, Len(p)) = p

\* g_str_has_suffix
HasSuffix(s, p) == Len(s) >= Len(p) /\ SubSeq(s, Len(s) - Len(p) + 1, Len(s)) = p

\* strstr(s, sub) != NULL
Contains(s, sub) == \E k \in 1..(Len(s) - Len(sub) + 1) : SubSeq(s, k, k + Len(sub) - 1) = sub

\* strchr: index of the first c in s at or after position from, 0 when absent
IndexOf(s, c, from) ==
    LET hits == {k \in from..Len(s) : s[k] = c}
    IN IF hits = {} THEN 0 ELSE CHOOSE k \in hits : \A j \in hits : k <= j

\* strrchr: index of the last c in s at or after position from, 0 when absent
LastIndexOf(s, c, from) ==
    LET hits == {k \in from..Len(s) : s[k] = c}
    IN IF hits = {} THEN 0 ELSE CHOOSE k \in hits : \A j \in hits : k >= j

\* the suffix of s that starts at position k (a pointer into s)
From(s, k) == SubSeq(s, k, Len(s))

\* g_strstrip: removes leading and trailing whitespace
Strip(s) ==
    LET keep == {k \in 1..Len(s) : ~IsWs(s[k])}
    IN IF keep = {} THEN EmptyStr
       ELSE SubSeq(s, CHOOSE k \in keep : \A j \in keep : k <= j,
                      CHOOSE k \in keep : \A j \in keep : k >= j)

\* g_strsplit(s, "\n", -1): the pieces between newlines; the empty string
\* splits into no piece at all
RECURSIVE SplitLines(_)
SplitLines(s) ==
    IF s = EmptyStr THEN <<>>
    ELSE LET n == IndexOf(s, NL, 1)
         IN IF n = 0 THEN <<s>>
            ELSE IF n = Len(s) THEN <<SubSeq(s, 1, n - 1), EmptyStr>>
            ELSE <<SubSeq(s, 1, n - 1)>> \o SplitLines(From(s, n + 1))

DEFINE_KW == <<"#", "d", "e", "f", "i", "n", "e">>
PARAMS_KW == <<"C", "R", "I", "S", "P", "Y", "_", "P", "A", "R", "A", "M", "S">>
SHEBANG_KW == <<"#", "!">>

\* position of the first character of s at or after k that is neither a
\* space nor a tab, never beyond limit
RECURSIVE SkipBlank(_, _, _)
SkipBlank(s, k, limit) ==
    IF k < limit /\ k <= Len(s) /\ (s[k] = SP \/ s[k] = TAB)
    THEN SkipBlank(s, k + 1, limit) ELSE k

(***************************************************************************)
(* crispy-source-utils-private.c                                           *)
(***************************************************************************)
\* crispy_source_extract_params: pos walks the source line by line; the
\* prefix test, strstr, strchr and strrchr all work on the rest of the
\* whole source from p, as the C string functions do
RECURSIVE ExtractFrom(_, _)
ExtractFrom(source, pos) ==
    IF pos > Len(source) THEN Null
    ELSE LET nl == IndexOf(source, NL, pos)
             line_end == IF nl = 0 THEN Len(source) + 1 ELSE nl
             p == SkipBlank(source, pos, line_end)
             rest == From(source, p)
             start == IndexOf(source, QUOTE, p)
             end == IF start = 0 THEN 0 ELSE LastIndexOf(source, QUOTE, start + 1)
         IN IF HasPrefix(rest, DEFINE_KW) /\ Contains(rest, PARAMS_KW)
               /\ start # 0 /\ end # 0 /\ end > start + 1
            THEN SubSeq(source, start + 1, end - 1)
            ELSE IF nl # 0 THEN ExtractFrom(source, nl + 1) ELSE Null

crispy_source_extract_params(source) ==
    IF source = Null THEN Null ELSE ExtractFrom(source, 1)

\* TRUE when the line, after leading blanks, starts with #define and
\* mentions CRISPY_PARAMS
IsParamsLine(line) ==
    LET p == SkipBlank(line, 1, Len(line) + 1)
    IN HasPrefix(From(line, p), DEFINE_KW) /\ Contains(From(line, p), PARAMS_KW)

\* the loop of crispy_source_strip_header over lines[i..], with the output
\* built so far and the params_found flag
RECURSIVE StripLoop(_, _, _, _)
StripLoop(lines, i, params_found, modified) ==
    IF i > Len(lines) THEN modified
    ELSE IF i = 1 /\ HasPrefix(lines[i], SHEBANG_KW)
         THEN StripLoop(lines, i + 1, params_found, modified)
    ELSE IF ~params_found /\ IsParamsLine(lines[i])
         THEN StripLoop(lines, i + 1, TRUE, modified)
    ELSE StripLoop(lines, i + 1, params_found, modified \o lines[i] \o <<NL>>)

crispy_source_strip_header(source) ==
    IF source = Null THEN EmptyStr
    ELSE StripLoop(SplitLines(source), 1, FALSE, EmptyStr)

\* the words of a string, as the shell splits an unquoted parameter string
RECURSIVE ShellWords(_)
ShellWords(s) ==
    LET t == Strip(s)
        ws == {k \in 1..Len(t) : IsWs(t[k])}
    IN IF t = EmptyStr THEN <<>>
       ELSE IF ws = {} THEN <<t>>
       ELSE LET w == CHOOSE k \in ws : \A j \in ws : k <= j
            IN <<SubSeq(t, 1, w - 1)>> \o ShellWords(From(t, w + 1))

\* what /bin/sh -c "printf '%s ' <params>" prints: every word followed by
\* one space
RECURSIVE PrintfWords(_)
PrintfWords(words) ==
    IF words = <<>> THEN EmptyStr
    ELSE Head(words) \o <<SP>> \o PrintfWords(Tail(words))

\* crispy_source_shell_expand when the child process succeeds
crispy_source_shell_expand(params) ==
    IF params = Null \/ params = EmptyStr THEN EmptyStr
    ELSE Strip(PrintfWords(ShellWords(params)))

(***************************************************************************)
(* crispy-types.h, crispy-plugin.h                                         *)
(***************************************************************************)
CRISPY_FLAG_FORCE_COMPILE == 1
CRISPY_FLAG_PRESERVE_SOURCE == 2
CRISPY_FLAG_DRY_RUN == 4
CRISPY_FLAG_GDB == 8
CrispyFlags == 0..15

HasFlag(flags, bit) == (flags \div bit) % 2 = 1

CRISPY_HOOK_SOURCE_LOADED == 0
CRISPY_HOOK_PARAMS_EXPANDED == 1
CRISPY_HOOK_HASH_COMPUTED == 2
CRISPY_HOOK_CACHE_CHECKED == 3
CRISPY_HOOK_PRE_COMPILE == 4
CRISPY_HOOK_POST_COMPILE == 5
CRISPY_HOOK_MODULE_LOADED == 6
CRISPY_HOOK_PRE_EXECUTE == 7
CRISPY_HOOK_POST_EXECUTE == 8
CRISPY_HOOK_POINT_COUNT == 9
CrispyHookPoint == 0..(CRISPY_HOOK_POINT_COUNT - 1)

CRISPY_HOOK_CONTINUE == 0
CRISPY_HOOK_ABORT == 1
CRISPY_HOOK_FORCE_RECOMPILE == 2
CrispyHookResult == {CRISPY_HOOK_CONTINUE, CRISPY_HOOK_ABORT, CRISPY_HOOK_FORCE_RECOMPILE}

\* GError: the empty sink, and errors as <<kind, origin>>
NoError == <<"none", 0>>
ErrIO == <<"io", 0>>
ErrCompile == <<"compile", 0>>
ErrLoad == <<"load", 0>>
ErrNoMain == <<"no-main", 0>>
ErrSpawn == <<"spawn", 0>>
ErrFile == <<"file", 0>>
PluginError(p) == <<"plugin", p>>
\* CRISPY_ERROR_PLUGIN set by the engine itself
ErrPlugin == <<"plugin", 0>>
\* CRISPY_ERROR_CONFIG
ErrConfig == <<"config", 0>>

\* g_set_error: stores the error in an empty sink, leaves a full sink alone
g_set_error(sink, err) == IF sink = NoError THEN err ELSE sink

(***************************************************************************)
(* crispy-file-cache.c                                                     *)
(***************************************************************************)
\* strlen: the number of bytes before the first zero byte
strlen(s) == IF \E k \in 1..Len(s) : s[k] = NUL
             THEN (CHOOSE k \in 1..Len(s) : s[k] = NUL /\ \A j \in 1..(k - 1) : s[j] # NUL) - 1
             ELSE Len(s)

\* file_cache_compute_hash with nothing between source, flags and version
file_cache_compute_hash_nosep(source_content, source_len, extra_flags, compiler_version) ==
    SubSeq(source_content, 1,
           IF source_len < 0 THEN strlen(source_content) ELSE source_len)
        \o (IF extra_flags # Null THEN extra_flags ELSE EmptyStr)
        \o compiler_version

\* file_cache_compute_hash: the bytes fed to the digest; the digest is taken
\* as collision-free, so the hex string stands for exactly these bytes.
\* source_len bytes of the source are hashed, strlen of it when source_len
\* is negative.
file_cache_compute_hash(source_content, source_len, extra_flags, compiler_version) ==
    SubSeq(source_content, 1,
           IF source_len < 0 THEN strlen(source_content) ELSE source_len)
        \o <<NUL>>
        \o (IF extra_flags # Null THEN extra_flags ELSE EmptyStr)
        \o <<NUL>> \o compiler_version

\* file_cache_get_path: <cache_dir>/<hash>.so
SO_SUFFIX == <<".", "s", "o">>
file_cache_get_path(hash) == hash \o SO_SUFFIX

\* kinds of directory entry
NoFile == [kind |-> "none", mtime |-> 0]
RegularFile(t) == [kind |-> "regular", mtime |-> t]
Directory(t) == [kind |-> "dir", mtime |-> t]

\* the entry of the cache directory at a path
Lookup(cache, path) == IF path \in DOMAIN cache THEN cache[path].file ELSE NoFile

\* file_cache_has_valid requiring an artifact strictly newer than the source
file_cache_has_valid_strict(so, source_path, source) ==
    IF so.kind # "regular" THEN FALSE
    ELSE IF source_path = Null THEN TRUE
    ELSE IF source.kind = "none" THEN FALSE
    ELSE so.mtime > source.mtime

\* file_cache_has_valid without the modification-time comparison
file_cache_has_valid_exists(so, source_path, source) == so.kind = "regular"

\* file_cache_has_valid on the entry found at the artifact's path; source is
\* the source file's entry, source_path Null for inline and stdin scripts
file_cache_has_valid(so, source_path, source) ==
    IF so.kind # "regular" THEN FALSE
    ELSE IF source_path = Null THEN TRUE
    ELSE IF source.kind = "none" THEN FALSE
    ELSE so.mtime >= source.mtime

(***************************************************************************)
(* State                                                                   *)
(***************************************************************************)
VARIABLES
    clock,        \* wall clock in whole seconds
    srcFile,      \* the script file on disk: [kind, mtime, content]
    cache,        \* the cache directory: path -> [file, src, flags, has_main]
    tmp,          \* the temporary source files that exist: id -> content
    gcc_version,  \* first line of gcc --version (CrispyGccCompilerPrivate)
    cli,          \* the driver's command line and loaded configuration
    pc,           \* where the driver is
    hk,           \* hook point of the dispatch in progress
    i,            \* index of the plugin the dispatch loop is at (from 1)
    plugins,      \* CrispyPluginEnginePrivate.plugins, in load order
    priv,         \* CrispyScriptPrivate
    ctx,          \* the CrispyHookContext local of crispy_script_execute
    loc,          \* the other locals of crispy_script_execute
    error,        \* the caller's GError sink
    ret,          \* the value crispy_script_execute returned
    hist,         \* what this invocation has done so far
    fresh,        \* artifact paths compiled from the script file, the file untouched since
    invocations,  \* number of script records created so far
    fn,           \* a library function applied on its own: [name, args, result]
    config_ctx,   \* the CrispyConfigContext of main: [loaded, plugin_paths]
    engine,       \* the CrispyPluginEngine of main: [exists, finalized, data_store]
    trace         \* the calls made into plugin libraries and modules, in order

vars == <<clock, srcFile, cache, tmp, gcc_version, cli, pc, hk, i, plugins,
          priv, ctx, loc, error, ret, hist, fresh, invocations, fn, config_ctx, engine, trace>>

\* values the model draws its inputs from
ScriptPath == <<"/", "s">>
SrcPlain == <<"m", NL>>
SrcParams == DEFINE_KW \o <<SP>> \o PARAMS_KW \o <<SP, QUOTE, "a", QUOTE, NL, "m", NL>>
InlineSrc == <<"i", NL>>
Sources == {SrcPlain, SrcParams}
DefaultFlagChoices == {Null, EmptyStr, <<"x">>}
OverrideFlagChoices == {Null, EmptyStr, <<"z">>}
PluginFlagChoices == {EmptyStr, <<"p">>}
PluginSource == <<"r", NL>>
ScriptArgv == <<"s">>
PluginArgv == <<"s", "q">>
ExitCodes == {0, 3}
Versions == {<<"g">>}
NoRet == -2

\* what a handler may write into the context it is given
HandlerWrites == {"none", "source", "flags", "args", "force", "unforce"}

\* the command lines the driver can be started with: flag set, script origin,
\* number of plugins to load (-1: no engine is created), the context fields
\* the handlers of those plugin libraries write, and the compiler flags a
\* loaded configuration left (Null: none)
CommandLines ==
    [flags : CrispyFlags, mode : {"file", "inline"}, plugins : -1..NumPlugins,
     writes : SUBSET HandlerWrites,
     extra : DefaultFlagChoices, override : OverrideFlagChoices]

NoModule == [open |-> FALSE, src |-> Null, flags |-> Null, has_main |-> FALSE]

\* a script record that does not exist
NoScript ==
    [source_path |-> Null, source_content |-> Null, crispy_params |-> Null,
     expanded_params |-> Null, modified_source |-> Null, temp_source_path |-> 0,
     hash |-> Null, module |-> NoModule, flags |-> 0,
     config_extra_flags |-> Null, config_override_flags |-> Null,
     exit_code |-> 0, plugin_engine |-> FALSE]

\* memset(&ctx, 0, sizeof(ctx))
ZeroCtx ==
    [hook_point |-> 0, engine |-> FALSE, source_path |-> Null,
     source_content |-> Null, crispy_params |-> Null, expanded_params |-> Null,
     hash |-> Null, cached_so_path |-> Null, temp_source_path |-> 0,
     flags |-> 0, cache_hit |-> FALSE, modified_source |-> Null,
     modified_replaced |-> FALSE, extra_flags |-> Null, argv |-> <<>>,
     force_recompile |-> FALSE, exit_code |-> 0]

NoLocals ==
    [argv |-> <<>>, cache_hit |-> FALSE, hook_result |-> CRISPY_HOOK_CONTINUE,
     cached_so_path |-> Null, compile_flags |-> Null]

NoAbort == [at |-> -1, by |-> 0, err |-> NoError]

NoCall == [name |-> "none", args |-> <<>>, result |-> <<>>]

NoHistory ==
    [fired |-> <<>>, dispCalls |-> <<>>, mainCalls |-> 0, mainArgv |-> <<>>,
     mainRet |-> <<>>,
     compiles |-> 0, hvCalls |-> 0, opens |-> 0, tmpWrites |-> 0,
     abort |-> NoAbort, checkResult |-> -1, checkFlag |-> FALSE, forceSet |-> FALSE,
     validAtCheck |-> FALSE, freshAtCheck |-> FALSE]

\* main before the configuration is loaded: no context, no engine
NoConfigContext == [loaded |-> FALSE, plugin_paths |-> <<>>]

NoEngine == [exists |-> FALSE, finalized |-> FALSE, data_store |-> <<>>]

InitScript ==
    /\ pc = "idle" /\ hk = 0 /\ i = 0
    /\ plugins = <<>>
    /\ config_ctx = NoConfigContext /\ engine = NoEngine /\ trace = <<>>
    /\ priv = NoScript /\ ctx = ZeroCtx /\ loc = NoLocals
    /\ error = NoError /\ ret = NoRet
    /\ hist = NoHistory
    /\ fresh = {}

\* the driver is run up to MaxInvocations times on a script file, the
\* clock running and the file being rewritten between the runs; the cache
\* directory starts empty
Init ==
    /\ clock = 0
    /\ srcFile \in [kind : {"regular"}, mtime : {0}, content : Sources]
    /\ cache = <<>>
    /\ tmp = <<>>
    /\ gcc_version \in Versions
    /\ cli \in {c \in CommandLines :
                    /\ c.writes = {"none", "force"}
                    /\ ~HasFlag(c.flags, CRISPY_FLAG_GDB)
                    /\ ~HasFlag(c.flags, CRISPY_FLAG_PRESERVE_SOURCE)
                    /\ c.extra = Null /\ c.override = Null}
    /\ InitScript
    /\ invocations = 0
    /\ fn = NoCall

(***************************************************************************)
(* crispy-script.c: construction                                           *)
(***************************************************************************)
\* parse_crispy_params
parse_crispy_params(p) ==
    [p EXCEPT !.crispy_params = crispy_source_extract_params(p.source_content),
              !.modified_source = crispy_source_strip_header(p.source_content)]

\* crispy_script_new_from_file, the file read successfully
crispy_script_new_from_file(path, content, flags) ==
    parse_crispy_params([NoScript EXCEPT !.flags = flags, !.source_path = path,
                                         !.source_content = content])

\* crispy_script_new_from_inline; build_inline_source has wrapped the code
crispy_script_new_from_inline(content, flags) ==
    [NoScript EXCEPT !.flags = flags, !.source_content = content,
                     !.modified_source = content]

crispy_script_set_extra_flags(p, extra_flags) ==
    [p EXCEPT !.config_extra_flags = extra_flags]

crispy_script_set_override_flags(p, override_flags) ==
    [p EXCEPT !.config_override_flags = override_flags]

crispy_script_set_plugin_engine(p, attached) ==
    [p EXCEPT !.plugin_engine = attached]

\* the script record main() hands to crispy_script_execute for command line
\* c: created from the file's content or from inline code, the
\* configuration's compiler flags injected when present, the engine attached
\* when there is one
CreateScript(c, content) ==
    LET created == IF c.mode = "file"
                   THEN crispy_script_new_from_file(ScriptPath, content, c.flags)
                   ELSE crispy_script_new_from_inline(InlineSrc, c.flags)
        withExtra == IF c.extra # Null
                     THEN crispy_script_set_extra_flags(created, c.extra)
                     ELSE created
        withOverride == IF c.override # Null
                        THEN crispy_script_set_override_flags(withExtra, c.override)
                        ELSE withExtra
    IN IF c.plugins >= 0
       THEN crispy_script_set_plugin_engine(withOverride, TRUE)
       ELSE withOverride

\* main(): loads the plugins, creates the script record, injects the
\* configuration's compiler flags and attaches the engine.  A script file
\* that cannot be read ends the driver with status 1.
DriverSetup ==
    /\ pc = "idle"
    /\ invocations < MaxInvocations
    /\ invocations' = invocations + 1
    /\ plugins' = IF cli.plugins < 0 THEN <<>> ELSE [k \in 1..cli.plugins |-> [id |-> k, writes |-> cli.writes]]
    /\ hist' = NoHistory
    /\ ctx' = ZeroCtx /\ loc' = [NoLocals EXCEPT !.argv = ScriptArgv]
    /\ hk' = 0 /\ i' = 0
    /\ IF cli.mode = "file" /\ srcFile.kind # "regular"
       THEN /\ pc' = "exited"
            /\ error' = ErrFile
            /\ ret' = NoRet
            /\ priv' = NoScript
       ELSE /\ pc' = "created"
            /\ error' = NoError
            /\ ret' = NoRet
            /\ priv' = CreateScript(cli, srcFile.content)
    /\ UNCHANGED <<clock, srcFile, cache, tmp, gcc_version, cli, fresh, fn, config_ctx, engine, trace>>

(***************************************************************************)
(* crispy-script.c: hook context and dispatch                              *)
(***************************************************************************)
\* a populate_hook_context that assigns the read-only fields and leaves the
\* mutable ones as the handlers left them
populate_hook_context_keep(c, p, cached_so_path, cache_hit, argv) ==
    [c EXCEPT !.source_path = p.source_path,
              !.source_content = p.source_content,
              !.crispy_params = p.crispy_params,
              !.expanded_params = p.expanded_params,
              !.hash = p.hash,
              !.cached_so_path = cached_so_path,
              !.temp_source_path = p.temp_source_path,
              !.flags = p.flags,
              !.cache_hit = cache_hit,
              !.exit_code = p.exit_code]

\* populate_hook_context: the fields it assigns; hook_point and engine are
\* left alone.  modified_replaced tells whether ctx.modified_source points
\* to a buffer other than priv.modified_source.
populate_hook_context(c, p, cached_so_path, cache_hit, argv) ==
    [c EXCEPT !.source_path = p.source_path,
              !.source_content = p.source_content,
              !.crispy_params = p.crispy_params,
              !.expanded_params = p.expanded_params,
              !.hash = p.hash,
              !.cached_so_path = cached_so_path,
              !.temp_source_path = p.temp_source_path,
              !.flags = p.flags,
              !.cache_hit = cache_hit,
              !.modified_source = p.modified_source,
              !.modified_replaced = FALSE,
              !.extra_flags = Null,
              !.argv = argv,
              !.force_recompile = FALSE,
              !.exit_code = p.exit_code]

\* dispatch_hook is entered for hook_point with the context c: with an
\* engine attached crispy_plugin_engine_dispatch stamps the hook point and
\* the engine into the context before its loop
EnterDispatch(hook_point, c, p) ==
    /\ pc' = "dispatch"
    /\ hk' = hook_point
    /\ i' = 1
    /\ ctx' = IF p.plugin_engine
              THEN [c EXCEPT !.hook_point = hook_point, !.engine = TRUE]
              ELSE c

\* the record of a hook point firing
Fired(h, hook_point, c) ==
    [h EXCEPT !.fired = Append(@, [hook |-> hook_point, cache_hit |-> c.cache_hit]),
              !.dispCalls = <<>>]

ApplyWrite(c, w, f) ==
    CASE w = "source" -> [c EXCEPT !.modified_source = PluginSource, !.modified_replaced = TRUE]
      [] w = "flags" -> [c EXCEPT !.extra_flags = f]
      [] w = "args" -> [c EXCEPT !.argv = PluginArgv]
      [] w = "force" -> [c EXCEPT !.force_recompile = TRUE]
      [] w = "unforce" -> [c EXCEPT !.force_recompile = FALSE]
      [] OTHER -> c

\* crispy_plugin_engine_dispatch with no engine attached (dispatch_hook) or
\* with the loop past the last plugin: CRISPY_HOOK_CONTINUE
DispatchReturn ==
    /\ pc = "dispatch"
    /\ ~priv.plugin_engine \/ i > Len(plugins)
    /\ pc' = "after"
    /\ loc' = [loc EXCEPT !.hook_result = CRISPY_HOOK_CONTINUE]
    /\ UNCHANGED <<clock, srcFile, cache, tmp, gcc_version, cli, hk, i, plugins,
                   priv, ctx, error, ret, hist, fresh, invocations, fn, config_ctx, engine, trace>>

\* the plugin at index i has no handler for this hook point
DispatchSkip ==
    /\ pc = "dispatch"
    /\ priv.plugin_engine /\ i <= Len(plugins)
    /\ i' = i + 1
    /\ UNCHANGED <<clock, srcFile, cache, tmp, gcc_version, cli, pc, hk, plugins,
                   priv, ctx, loc, error, ret, hist, fresh, invocations, fn, config_ctx, engine, trace>>

\* a dispatch loop that goes on to the next plugin after an abort
AfterHandler_noabort(result) ==
    IF result = CRISPY_HOOK_FORCE_RECOMPILE
    THEN /\ pc' = "after"
         /\ loc' = [loc EXCEPT !.hook_result = result]
         /\ i' = i
    ELSE /\ pc' = pc
         /\ loc' = loc
         /\ i' = i + 1

\* what the dispatch loop does with the result of the handler of plugin i
AfterHandler(result) ==
    IF result # CRISPY_HOOK_CONTINUE
    THEN /\ pc' = "after"
         /\ loc' = [loc EXCEPT !.hook_result = result]
         /\ i' = i
    ELSE /\ pc' = pc
         /\ loc' = loc
         /\ i' = i + 1

\* the handler of plugin i is called: it writes into the context and
\* returns a result; an aborting handler may populate the error sink
DispatchCall ==
    /\ pc = "dispatch"
    /\ priv.plugin_engine /\ i <= Len(plugins)
    /\ \E result \in CrispyHookResult, w \in plugins[i].writes, f \in PluginFlagChoices,
          populate \in BOOLEAN :
        /\ w = "flags" \/ f = EmptyStr
        /\ result = CRISPY_HOOK_ABORT \/ ~populate
        /\ result = CRISPY_HOOK_CONTINUE \/ w = "none"
        /\ ctx' = ApplyWrite(ctx, w, f)
        /\ error' = IF populate THEN g_set_error(error, PluginError(i)) ELSE error
        /\ hist' = [hist EXCEPT
                      !.dispCalls = Append(@, <<i, result>>),
                      !.forceSet = @ \/ (w = "force" /\ hk = CRISPY_HOOK_CACHE_CHECKED),
                      !.abort = IF result = CRISPY_HOOK_ABORT
                                THEN [at |-> hk, by |-> i, err |-> error']
                                ELSE @]
        /\ AfterHandler(result)
    /\ UNCHANGED <<clock, srcFile, cache, tmp, gcc_version, cli, hk, plugins,
                   priv, ret, fresh, invocations, fn, config_ctx, engine, trace>>

\* crispy_script_execute returns
Return(value) ==
    /\ pc' = "returned"
    /\ ret' = value


\* crispy_script_execute returns value with the sink, the record, the
\* locals and the history as given
ReturnWith(value, err, p, l, h) ==
    /\ Return(value)
    /\ error' = err /\ priv' = p /\ loc' = l /\ hist' = h
    /\ UNCHANGED <<hk, i, ctx>>

\* the context is populated and the next hook point is dispatched
Proceed(hook_point, p, l, h) ==
    LET c == populate_hook_context(ctx, p, l.cached_so_path, l.cache_hit, l.argv)
    IN /\ EnterDispatch(hook_point, c, p)
       /\ priv' = p /\ loc' = l
       /\ hist' = Fired(h, hook_point, c)
       /\ UNCHANGED <<error, ret>>

\* every result other than continue taken as abort
Aborted_noncontinue == loc.hook_result # CRISPY_HOOK_CONTINUE

\* hook_result == CRISPY_HOOK_ABORT
Aborted == loc.hook_result = CRISPY_HOOK_ABORT

\* return -1 after an abort with an error of the driver's own in the sink
AbortReturn_overwrite == ReturnWith(-1, ErrIO, priv, loc, hist)

\* return -1 after an abort with the recorded exit code reset
AbortReturn_clearexit == ReturnWith(-1, error, [priv EXCEPT !.exit_code = -1], loc, hist)

\* return -1 after an abort: the sink is left as the plugins left it
AbortReturn == ReturnWith(-1, error, priv, loc, hist)

(***************************************************************************)
(* crispy-script.c: crispy_script_execute                                  *)
(***************************************************************************)
\* entry up to the dispatch of source-loaded
ExecuteBegin ==
    /\ pc = "created"
    /\ LET p == [priv EXCEPT !.exit_code = -1]
           c == populate_hook_context(ZeroCtx, p, Null, FALSE, loc.argv)
       IN /\ EnterDispatch(CRISPY_HOOK_SOURCE_LOADED, c, p)
          /\ priv' = p
          /\ hist' = Fired(hist, CRISPY_HOOK_SOURCE_LOADED, c)
    /\ UNCHANGED <<clock, srcFile, cache, tmp, gcc_version, cli, plugins,
                   loc, error, ret, fresh, invocations, fn, config_ctx, engine, trace>>

\* after source-loaded: take over a replaced source, shell-expand the
\* parameters, dispatch params-expanded
AfterSourceLoaded ==
    /\ pc = "after" /\ hk = CRISPY_HOOK_SOURCE_LOADED
    /\ IF Aborted
       THEN AbortReturn
       ELSE LET p1 == IF ctx.modified_source # Null /\ ctx.modified_replaced
                      THEN [priv EXCEPT !.modified_source = ctx.modified_source]
                      ELSE priv
                spawns == ~(p1.crispy_params = Null \/ p1.crispy_params = EmptyStr)
            IN \/ /\ spawns
                  /\ ReturnWith(-1, g_set_error(error, ErrSpawn), p1, loc, hist)
               \/ Proceed(CRISPY_HOOK_PARAMS_EXPANDED,
                          [p1 EXCEPT !.expanded_params =
                                        crispy_source_shell_expand(p1.crispy_params)],
                          loc, hist)
    /\ UNCHANGED <<clock, srcFile, cache, tmp, gcc_version, cli, plugins,
                   fresh, invocations, fn, config_ctx, engine, trace>>

\* hash_flags that leaves the config override flags out
HashFlags_nooverride(p) ==
    (IF p.config_extra_flags # Null /\ p.config_extra_flags # EmptyStr
     THEN p.config_extra_flags \o <<SP>> ELSE EmptyStr)
    \o (IF p.expanded_params # Null /\ p.expanded_params # EmptyStr
        THEN p.expanded_params \o <<SP>> ELSE EmptyStr)

\* hash_flags with the whole string trimmed
HashFlags_trimmed(p) ==
    Strip((IF p.config_extra_flags # Null /\ p.config_extra_flags # EmptyStr
           THEN p.config_extra_flags \o <<SP>> ELSE EmptyStr)
          \o (IF p.expanded_params # Null /\ p.expanded_params # EmptyStr
              THEN p.expanded_params \o <<SP>> ELSE EmptyStr)
          \o (IF p.config_override_flags # Null /\ p.config_override_flags # EmptyStr
              THEN p.config_override_flags ELSE EmptyStr))

\* the flag string fed to the fingerprint (hash_flags)
HashFlags(p) ==
    LET t1 == IF p.config_extra_flags # Null /\ p.config_extra_flags # EmptyStr
              THEN p.config_extra_flags \o <<SP>> ELSE EmptyStr
        t2 == IF p.expanded_params # Null /\ p.expanded_params # EmptyStr
              THEN p.expanded_params \o <<SP>> ELSE EmptyStr
        t3 == IF p.config_override_flags # Null /\ p.config_override_flags # EmptyStr
              THEN p.config_override_flags ELSE EmptyStr
    IN t1 \o t2 \o t3

\* after params-expanded: compute the fingerprint and the artifact path,
\* dispatch hash-computed
AfterParamsExpanded ==
    /\ pc = "after" /\ hk = CRISPY_HOOK_PARAMS_EXPANDED
    /\ IF Aborted
       THEN AbortReturn
       ELSE LET hash == file_cache_compute_hash(priv.source_content, Len(priv.source_content), HashFlags(priv), gcc_version)
            IN Proceed(CRISPY_HOOK_HASH_COMPUTED,
                       [priv EXCEPT !.hash = hash],
                       [loc EXCEPT !.cached_so_path = file_cache_get_path(hash)],
                       hist)
    /\ UNCHANGED <<clock, srcFile, cache, tmp, gcc_version, cli, plugins,
                   fresh, invocations, fn, config_ctx, engine, trace>>

\* the script file as g_stat sees it
SourceEntry == [kind |-> srcFile.kind, mtime |-> srcFile.mtime]

\* the validity predicate consulted whatever the flags
ConsultCache_always(flags) == TRUE

\* the validity predicate is consulted unless the force-compile flag is set
ConsultCache(flags) == ~HasFlag(flags, CRISPY_FLAG_FORCE_COMPILE)

\* after hash-computed: consult the cache unless the force-compile flag is
\* set, dispatch cache-checked
AfterHashComputed ==
    /\ pc = "after" /\ hk = CRISPY_HOOK_HASH_COMPUTED
    /\ IF Aborted
       THEN AbortReturn
       ELSE LET consult == ConsultCache(priv.flags)
                valid == file_cache_has_valid(Lookup(cache, file_cache_get_path(priv.hash)),
                                              priv.source_path, SourceEntry)
                cache_hit == IF consult THEN valid ELSE FALSE
            IN Proceed(CRISPY_HOOK_CACHE_CHECKED, priv,
                       [loc EXCEPT !.cache_hit = cache_hit],
                       [hist EXCEPT !.hvCalls = IF consult THEN @ + 1 ELSE @,
                                    !.validAtCheck = valid,
                                    !.freshAtCheck = file_cache_get_path(priv.hash) \in fresh])
    /\ UNCHANGED <<clock, srcFile, cache, tmp, gcc_version, cli, plugins,
                   fresh, invocations, fn, config_ctx, engine, trace>>


\* mkstemp: a name that no existing file has
NewTmpId == CHOOSE n \in 1..(Cardinality(DOMAIN tmp) + 1) : n \notin DOMAIN tmp

\* loading that goes straight on to pre-execute, module-loaded never fired
LoadModule_nohook(p, l, h) ==
    LET path == l.cached_so_path
        h1 == [h EXCEPT !.opens = @ + 1]
    IN \/ /\ Lookup(cache, path).kind = "regular"
          /\ Proceed(CRISPY_HOOK_PRE_EXECUTE,
                     [p EXCEPT !.module = [open |-> TRUE, src |-> cache[path].src,
                                           flags |-> cache[path].flags,
                                           has_main |-> cache[path].has_main]],
                     l, h1)
       \/ ReturnWith(-1, g_set_error(error, ErrLoad),
                     [p EXCEPT !.module = NoModule], l, h1)

\* load the artifact (g_module_open) and dispatch module-loaded; opening
\* can fail whatever is at the path, and always fails when nothing is
LoadModule(p, l, h) ==
    LET path == l.cached_so_path
        h1 == [h EXCEPT !.opens = @ + 1]
    IN \/ /\ Lookup(cache, path).kind = "regular"
          /\ Proceed(CRISPY_HOOK_MODULE_LOADED,
                     [p EXCEPT !.module = [open |-> TRUE, src |-> cache[path].src,
                                           flags |-> cache[path].flags,
                                           has_main |-> cache[path].has_main]],
                     l, h1)
       \/ ReturnWith(-1, g_set_error(error, ErrLoad),
                     [p EXCEPT !.module = NoModule], l, h1)

\* only the hook result forces a recompile, the context's boolean is not read
ForceRequested_resultonly(hook_result, force_recompile) ==
    hook_result = CRISPY_HOOK_FORCE_RECOMPILE

\* hook_result == CRISPY_HOOK_FORCE_RECOMPILE || ctx.force_recompile
ForceRequested(hook_result, force_recompile) ==
    hook_result = CRISPY_HOOK_FORCE_RECOMPILE \/ force_recompile

\* after cache-checked: a forced recompile turns a hit into a miss; on a
\* miss write the temp source, then dry-run, debugger or pre-compile; on a
\* hit load the module
AfterCacheChecked ==
    /\ pc = "after" /\ hk = CRISPY_HOOK_CACHE_CHECKED
    /\ IF Aborted
       THEN /\ AbortReturn
            /\ UNCHANGED tmp
       ELSE LET force == ForceRequested(loc.hook_result, ctx.force_recompile)
                l1 == [loc EXCEPT !.cache_hit = IF force THEN FALSE ELSE @]
                h1 == [hist EXCEPT !.checkResult = loc.hook_result,
                                   !.checkFlag = ctx.force_recompile]
                id == NewTmpId
                p1 == [priv EXCEPT !.temp_source_path = id]
                h2 == [h1 EXCEPT !.tmpWrites = @ + 1]
            IN IF ~l1.cache_hit
               THEN \/ \* g_mkstemp fails
                       /\ ReturnWith(-1, g_set_error(error, ErrIO), priv, l1, h1)
                       /\ UNCHANGED tmp
                    \/ \* write fails: the file exists, its content is not the source
                       /\ ReturnWith(-1, g_set_error(error, ErrIO), p1, l1, h1)
                       /\ tmp' = (id :> EmptyStr) @@ tmp
                    \/ /\ tmp' = (id :> priv.modified_source) @@ tmp
                       /\ IF HasFlag(priv.flags, CRISPY_FLAG_DRY_RUN)
                          THEN ReturnWith(0, error, [p1 EXCEPT !.exit_code = 0], l1, h2)
                          ELSE IF HasFlag(priv.flags, CRISPY_FLAG_GDB)
                          THEN \/ \* crispy_compiler_compile_executable fails
                                  \E e \in {ErrCompile, ErrSpawn} :
                                      ReturnWith(-1, g_set_error(error, e), p1, l1, h2)
                               \/ \* execvp fails
                                  ReturnWith(-1, g_set_error(error, ErrIO), p1, l1, h2)
                               \/ \* execvp replaces the process with gdb
                                  /\ pc' = "exec_gdb"
                                  /\ priv' = p1 /\ loc' = l1 /\ hist' = h2
                                  /\ UNCHANGED <<hk, i, ctx, error, ret>>
                          ELSE Proceed(CRISPY_HOOK_PRE_COMPILE, p1, l1, h2)
               ELSE /\ LoadModule(priv, l1, h1)
                    /\ UNCHANGED tmp
    /\ UNCHANGED <<clock, srcFile, cache, gcc_version, cli, plugins,
                   fresh, invocations, fn, config_ctx, engine, trace>>

\* a tier appended with a space in front whether or not the buffer is empty
AppendTier_alwaysspace(flags_buf, tier) ==
    IF tier # Null /\ tier # EmptyStr
    THEN flags_buf \o <<SP>> \o tier
    ELSE flags_buf

\* g_string_append of a tier to the flag buffer, a space first when the
\* buffer is not empty
AppendTier(flags_buf, tier) ==
    IF tier # Null /\ tier # EmptyStr
    THEN (IF Len(flags_buf) > 0 THEN flags_buf \o <<SP>> ELSE flags_buf) \o tier
    ELSE flags_buf

\* the four-tier compile_flags string
CompileFlags(p, extra_flags) ==
    LET tier1 == IF p.config_extra_flags # Null /\ p.config_extra_flags # EmptyStr
                 THEN p.config_extra_flags ELSE EmptyStr
    IN AppendTier(AppendTier(AppendTier(tier1, p.expanded_params), extra_flags),
                  p.config_override_flags)

\* after pre-compile: assemble the flags, compile the temp source into the
\* artifact, dispatch post-compile
AfterPreCompile ==
    /\ pc = "after" /\ hk = CRISPY_HOOK_PRE_COMPILE
    /\ IF Aborted
       THEN /\ AbortReturn
            /\ UNCHANGED <<cache, fresh>>
       ELSE LET l1 == [loc EXCEPT !.compile_flags = CompileFlags(priv, ctx.extra_flags)]
                h1 == [hist EXCEPT !.compiles = @ + 1]
            IN \/ \* gcc exits with a failure status
                  /\ ReturnWith(-1, g_set_error(error, ErrCompile), priv, l1, h1)
                  /\ UNCHANGED <<cache, fresh>>
               \/ \* g_spawn_command_line_sync cannot run gcc
                  /\ ReturnWith(-1, g_set_error(error, ErrSpawn), priv, l1, h1)
                  /\ UNCHANGED <<cache, fresh>>
               \/ \E has_main \in BOOLEAN :
                  /\ cache' = (l1.cached_so_path :>
                                  [file |-> RegularFile(clock),
                                   src |-> tmp[priv.temp_source_path],
                                   flags |-> l1.compile_flags,
                                   has_main |-> has_main]) @@ cache
                  /\ fresh' = IF priv.source_path # Null
                              THEN fresh \cup {l1.cached_so_path} ELSE fresh
                  /\ Proceed(CRISPY_HOOK_POST_COMPILE, priv, l1, h1)
    /\ UNCHANGED <<clock, srcFile, tmp, gcc_version, cli, plugins, invocations, fn, config_ctx, engine, trace>>

\* after post-compile: load the module
AfterPostCompile ==
    /\ pc = "after" /\ hk = CRISPY_HOOK_POST_COMPILE
    /\ IF Aborted
       THEN AbortReturn
       ELSE LoadModule(priv, loc, hist)
    /\ UNCHANGED <<clock, srcFile, cache, tmp, gcc_version, cli, plugins,
                   fresh, invocations, fn, config_ctx, engine, trace>>

\* after module-loaded: resolve main, dispatch pre-execute
AfterModuleLoaded ==
    /\ pc = "after" /\ hk = CRISPY_HOOK_MODULE_LOADED
    /\ IF Aborted
       THEN AbortReturn
       ELSE IF ~priv.module.has_main
       THEN ReturnWith(-1, g_set_error(error, ErrNoMain), priv, loc, hist)
       ELSE Proceed(CRISPY_HOOK_PRE_EXECUTE, priv, loc, hist)
    /\ UNCHANGED <<clock, srcFile, cache, tmp, gcc_version, cli, plugins,
                   fresh, invocations, fn, config_ctx, engine, trace>>

\* main called with the arguments crispy_script_execute was given, whatever
\* the pre-execute hook left in the context
AfterPreExecute_origargv ==
    /\ pc = "after" /\ hk = CRISPY_HOOK_PRE_EXECUTE
    /\ IF Aborted
       THEN AbortReturn
       ELSE \E code \in ExitCodes :
               Proceed(CRISPY_HOOK_POST_EXECUTE,
                       [priv EXCEPT !.exit_code = code],
                       loc,
                       [hist EXCEPT !.mainCalls = @ + 1, !.mainArgv = loc.argv,
                                    !.mainRet = Append(@, code)])
    /\ UNCHANGED <<clock, srcFile, cache, tmp, gcc_version, cli, plugins,
                   fresh, invocations, fn, config_ctx, engine, trace>>

\* after pre-execute: call main with the arguments the hook left, record
\* its return value, dispatch post-execute
AfterPreExecute ==
    /\ pc = "after" /\ hk = CRISPY_HOOK_PRE_EXECUTE
    /\ IF Aborted
       THEN AbortReturn
       ELSE \E code \in ExitCodes :
               Proceed(CRISPY_HOOK_POST_EXECUTE,
                       [priv EXCEPT !.exit_code = code],
                       [loc EXCEPT !.argv = ctx.argv],
                       [hist EXCEPT !.mainCalls = @ + 1, !.mainArgv = ctx.argv,
                                    !.mainRet = Append(@, code)])
    /\ UNCHANGED <<clock, srcFile, cache, tmp, gcc_version, cli, plugins,
                   fresh, invocations, fn, config_ctx, engine, trace>>

\* after post-execute: return main's exit code
AfterPostExecute ==
    /\ pc = "after" /\ hk = CRISPY_HOOK_POST_EXECUTE
    /\ IF Aborted
       THEN AbortReturn
       ELSE ReturnWith(priv.exit_code, error, priv, loc, hist)
    /\ UNCHANGED <<clock, srcFile, cache, tmp, gcc_version, cli, plugins,
                   fresh, invocations, fn, config_ctx, engine, trace>>

\* crispy_script_get_exit_code
crispy_script_get_exit_code(p) == p.exit_code

\* crispy_script_finalize, at the driver's cleanup: close the module and
\* remove the temp source unless it is to be preserved
Finalize ==
    /\ pc \in {"returned", "exited"}
    /\ pc' = "idle"
    /\ tmp' = IF priv.temp_source_path # 0
                 /\ ~HasFlag(priv.flags, CRISPY_FLAG_PRESERVE_SOURCE)
              THEN [k \in DOMAIN tmp \ {priv.temp_source_path} |-> tmp[k]]
              ELSE tmp
    /\ priv' = NoScript
    /\ plugins' = <<>>
    /\ UNCHANGED <<clock, srcFile, cache, gcc_version, cli, hk, i, ctx, loc,
                   error, ret, hist, fresh, invocations, fn, config_ctx, engine, trace>>

(***************************************************************************)
(* The environment between two runs of the driver                          *)
(***************************************************************************)
\* a second passes
Tick ==
    /\ pc = "idle"
    /\ invocations < MaxInvocations
    /\ clock < MaxClock
    /\ clock' = clock + 1
    /\ UNCHANGED <<srcFile, cache, tmp, gcc_version, cli, pc, hk, i, plugins,
                   priv, ctx, loc, error, ret, hist, fresh, invocations, fn, config_ctx, engine, trace>>

\* the script file is written again: its modification time becomes now
TouchSource ==
    /\ pc = "idle"
    /\ invocations < MaxInvocations
    /\ \E content \in Sources :
          srcFile' = [kind |-> "regular", mtime |-> clock, content |-> content]
    /\ srcFile' # srcFile
    /\ fresh' = {}
    /\ UNCHANGED <<clock, cache, tmp, gcc_version, cli, pc, hk, i, plugins,
                   priv, ctx, loc, error, ret, hist, invocations, fn, config_ctx, engine, trace>>

\* one run of the driver
NextRun ==
    \/ DriverSetup
    \/ ExecuteBegin
    \/ DispatchReturn
    \/ DispatchSkip
    \/ DispatchCall
    \/ AfterSourceLoaded
    \/ AfterParamsExpanded
    \/ AfterHashComputed
    \/ AfterCacheChecked
    \/ AfterPreCompile
    \/ AfterPostCompile
    \/ AfterModuleLoaded
    \/ AfterPreExecute
    \/ AfterPostExecute
    \/ Finalize

Next ==
    \/ NextRun
    \/ Tick
    \/ TouchSource

Spec == Init /\ [][Next]_vars

(***************************************************************************)
(* One run of the driver over a cache directory that earlier runs left     *)
(***************************************************************************)
\* the artifact path a run with command line c computes for the content
ArtifactPath(c, content, version) ==
    LET p0 == CreateScript(c, content)
        p1 == [p0 EXCEPT !.expanded_params = crispy_source_shell_expand(p0.crispy_params)]
    IN file_cache_get_path(file_cache_compute_hash(p1.source_content, Len(p1.source_content), HashFlags(p1), version))

\* the artifact an earlier run without plugins compiled at time t
EarlierArtifact(c, content, t, has_main) ==
    LET p0 == CreateScript(c, content)
        p1 == [p0 EXCEPT !.expanded_params = crispy_source_shell_expand(p0.crispy_params)]
    IN [file |-> RegularFile(t), src |-> p1.modified_source,
        flags |-> CompileFlags(p1, Null), has_main |-> has_main]

\* the cache directories an earlier run can have left for this command
\* line: empty, or holding the artifact, compiled before or after the
\* script file was last written
EarlierCaches(c, content, version, times) ==
    {<<>>} \cup {ArtifactPath(c, content, version) :> EarlierArtifact(c, content, t, m) :
                     t \in times, m \in BOOLEAN}

\* the last run of the driver, with plugins that force or do not force a
\* recompilation, no configuration
InitHooks ==
    /\ clock = 1
    /\ srcFile = [kind |-> "regular", mtime |-> 1, content |-> SrcParams]
    /\ gcc_version \in Versions
    /\ cli \in {c \in CommandLines :
                    /\ c.writes = {"none", "force", "unforce"}
                    /\ c.extra = Null /\ c.override = Null}
    /\ cache \in EarlierCaches(cli, srcFile.content, gcc_version, 0..1)
    /\ tmp = <<>>
    /\ InitScript
    /\ invocations = MaxInvocations - 1
    /\ fn = NoCall

SpecHooks == InitHooks /\ [][NextRun]_vars

\* the last run of the driver on a script file, with a configuration's
\* default and override flags and plugins that inject compiler flags
InitFlags ==
    /\ clock = 1
    /\ srcFile \in [kind : {"regular"}, mtime : {1}, content : Sources]
    /\ gcc_version \in Versions
    /\ cli \in {c \in CommandLines :
                    /\ c.writes = {"none", "flags"}
                    /\ c.flags = 0 /\ c.mode = "file"}
    /\ cache = <<>>
    /\ tmp = <<>>
    /\ InitScript
    /\ invocations = MaxInvocations - 1
    /\ fn = NoCall

SpecFlags == InitFlags /\ [][NextRun]_vars

\* the artifact an earlier run with plugins compiled at time t: from the
\* source a source-loaded handler may have replaced, with the flags a
\* pre-compile handler may have injected
PluginBuiltArtifact(c, content, t, replaced, extra_flags) ==
    LET p0 == CreateScript(c, content)
        p1 == [p0 EXCEPT !.expanded_params = crispy_source_shell_expand(p0.crispy_params)]
    IN [file |-> RegularFile(t),
        src |-> IF replaced THEN PluginSource ELSE p1.modified_source,
        flags |-> CompileFlags(p1, extra_flags), has_main |-> TRUE]

\* the cache directories an earlier run with plugins attached can have left
PluginBuiltCaches(c, content, version, times) ==
    {ArtifactPath(c, content, version) :> PluginBuiltArtifact(c, content, t, r, f) :
        t \in times, r \in BOOLEAN, f \in PluginFlagChoices}

\* the last run of the driver on a script whose artifact an earlier run,
\* with or without plugins, has left in the cache, with plugins that
\* replace the source or the argument vector
InitExec ==
    /\ clock = 1
    /\ srcFile = [kind |-> "regular", mtime |-> 1, content |-> SrcParams]
    /\ gcc_version \in Versions
    /\ cli \in {c \in CommandLines :
                    /\ c.writes = {"none", "source", "args"}
                    /\ c.flags = 0
                    /\ c.extra = Null /\ c.override = Null}
    /\ cache \in EarlierCaches(cli, srcFile.content, gcc_version, {1})
                    \cup PluginBuiltCaches(cli, srcFile.content, gcc_version, {1})
    /\ tmp = <<>>
    /\ InitScript
    /\ invocations = MaxInvocations - 1
    /\ fn = NoCall

SpecExec == InitExec /\ [][NextRun]_vars

(***************************************************************************)
(* file_cache_has_valid applied on its own                                 *)
(***************************************************************************)
FileEntries == {NoFile} \cup {RegularFile(t) : t \in 0..MaxClock}
                        \cup {Directory(t) : t \in 0..MaxClock}
SourceEntries == {NoFile} \cup {RegularFile(t) : t \in 0..MaxClock}

\* the arguments: entry at the artifact path, source path, entry of the source
InitHasValid ==
    /\ clock = 0
    /\ srcFile = [kind |-> "regular", mtime |-> 0, content |-> SrcPlain]
    /\ gcc_version \in Versions
    /\ cli = [flags |-> 0, mode |-> "file", plugins |-> -1, writes |-> {},
              extra |-> Null, override |-> Null]
    /\ cache = <<>>
    /\ tmp = <<>>
    /\ InitScript
    /\ invocations = 0
    /\ fn \in [name : {"has_valid"},
               args : FileEntries \X {Null, ScriptPath} \X SourceEntries,
               result : {<<>>}]

pipelineVars == <<clock, srcFile, cache, tmp, gcc_version, cli, pc, hk, i, plugins,
                  priv, ctx, loc, error, ret, hist, fresh, invocations,
                  config_ctx, engine, trace>>

\* crispy_cache_provider_has_valid is called
HasValidCall ==
    /\ fn.name = "has_valid"
    /\ fn' = [fn EXCEPT !.result = <<file_cache_has_valid(fn.args[1], fn.args[2], fn.args[3])>>]
    /\ UNCHANGED pipelineVars

\* the source file is written: its modification time changes
HasValidTouch ==
    /\ fn.name = "has_valid"
    /\ \E t \in 0..MaxClock :
          /\ fn.args[3].kind = "none" \/ t > fn.args[3].mtime
          /\ fn' = [fn EXCEPT !.args[3] = RegularFile(t), !.result = <<>>]
    /\ UNCHANGED pipelineVars

NextHasValid == HasValidCall \/ HasValidTouch

SpecHasValid == InitHasValid /\ [][NextHasValid]_vars


(***************************************************************************)
(* The fingerprint of two invocations of one source                        *)
(***************************************************************************)
\* config default and override flags: unset, empty, or flag strings
ConfigTierChoices == {Null, EmptyStr, <<"x">>, <<"y">>, <<"x", SP, "y">>}

\* what shell expansion can leave: stripped, possibly empty
ExpandedChoices == {EmptyStr, <<"x">>, <<"y">>, <<"x", SP, "y">>}

\* the fields of the script record that enter the fingerprint
FingerprintInputs ==
    [source_content : {SrcParams}, config_extra_flags : ConfigTierChoices,
     expanded_params : ExpandedChoices, config_override_flags : ConfigTierChoices]

InitFingerprint ==
    /\ clock = 0
    /\ srcFile = [kind |-> "regular", mtime |-> 0, content |-> SrcParams]
    /\ gcc_version \in Versions
    /\ cli = [flags |-> 0, mode |-> "file", plugins |-> -1, writes |-> {},
              extra |-> Null, override |-> Null]
    /\ cache = <<>>
    /\ tmp = <<>>
    /\ InitScript
    /\ invocations = 0
    /\ fn \in [name : {"fingerprint"},
               args : FingerprintInputs \X FingerprintInputs,
               result : {<<>>}]

\* crispy_script_execute [3]: hash_flags, fingerprint and artifact path
Fingerprint(p, compiler_version) ==
    LET hash == file_cache_compute_hash(p.source_content, Len(p.source_content), HashFlags(p), compiler_version)
    IN [hash_flags |-> HashFlags(p), hash |-> hash,
        cached_so_path |-> file_cache_get_path(hash)]

\* both invocations compute their fingerprint
FingerprintCall ==
    /\ fn.name = "fingerprint"
    /\ fn.result = <<>>
    /\ fn' = [fn EXCEPT !.result = <<Fingerprint(fn.args[1], gcc_version),
                                     Fingerprint(fn.args[2], gcc_version)>>]
    /\ UNCHANGED pipelineVars

NextFingerprint == FingerprintCall

SpecFingerprint == InitFingerprint /\ [][NextFingerprint]_vars

(***************************************************************************)
(* file_cache_compute_hash applied on its own                              *)
(***************************************************************************)
MaxSourceBytes == 2

\* source buffers of up to MaxSourceBytes bytes, zero bytes among them
SourceBuffers ==
    UNION {[1..n -> {"a", NUL}] : n \in 0..MaxSourceBytes}

\* the arguments of one call: the buffer with its length, or -1 for a
\* zero-terminated source; flags and version are C strings
HashArgs ==
    {a \in [source_content : SourceBuffers, source_len : -1..MaxSourceBytes,
            extra_flags : {Null, EmptyStr, <<"a">>},
            compiler_version : {<<"g">>, <<"a">>}] :
        a.source_len \in {-1, Len(a.source_content)}}

InitHash ==
    /\ clock = 0
    /\ srcFile = [kind |-> "regular", mtime |-> 0, content |-> SrcPlain]
    /\ gcc_version \in Versions
    /\ cli = [flags |-> 0, mode |-> "file", plugins |-> -1, writes |-> {},
              extra |-> Null, override |-> Null]
    /\ cache = <<>>
    /\ tmp = <<>>
    /\ InitScript
    /\ invocations = 0
    /\ fn \in [name : {"compute_hash"},
               args : HashArgs \X HashArgs,
               result : {<<>>}]

\* crispy_cache_provider_compute_hash on the file cache
crispy_cache_provider_compute_hash(a) ==
    file_cache_compute_hash(a.source_content, a.source_len, a.extra_flags,
                            a.compiler_version)

\* two calls of compute_hash
ComputeHashCall ==
    /\ fn.name = "compute_hash"
    /\ fn.result = <<>>
    /\ fn' = [fn EXCEPT !.result = <<crispy_cache_provider_compute_hash(fn.args[1]),
                                     crispy_cache_provider_compute_hash(fn.args[2])>>]
    /\ UNCHANGED pipelineVars

NextHash == ComputeHashCall

SpecHash == InitHash /\ [][NextHash]_vars

(***************************************************************************)
(* crispy-plugin-engine.c: loading plugins, their lifecycle                *)
(***************************************************************************)
\* the shared libraries there are: the test plugin with initializer,
\* shutdown and a handler for every hook point; the test plugin with a
\* pre-execute handler only; a shared object that is no plugin (it exports
\* crispy_plugin_init and crispy_plugin_shutdown, but no crispy_plugin_info);
\* nothing that g_module_open can open at any other path
HooksLib == <<"h">>
AbortLib == <<"t">>
OtherLib == <<"o">>

PluginLibrary(path) ==
    CASE path = HooksLib ->
            [opens |-> TRUE, info |-> TRUE, init |-> TRUE, shutdown |-> TRUE,
             hooks |-> CrispyHookPoint]
      [] path = AbortLib ->
            [opens |-> TRUE, info |-> TRUE, init |-> FALSE, shutdown |-> FALSE,
             hooks |-> {CRISPY_HOOK_PRE_EXECUTE}]
      [] path = OtherLib ->
            [opens |-> TRUE, info |-> FALSE, init |-> TRUE, shutdown |-> TRUE,
             hooks |-> {}]
      [] OTHER ->
            [opens |-> FALSE, info |-> FALSE, init |-> FALSE, shutdown |-> FALSE,
             hooks |-> {}]

\* a call into a library or a module, as the trace records it: entry is the
\* index of the plugin entry it is made for (0: none yet)
Ev(ev, path, entry, hook, data) ==
    [ev |-> ev, path |-> path, entry |-> entry, hook |-> hook, data |-> data]

\* crispy_plugin_engine_load on the plugin list pl with the trace tr:
\* whether it succeeded, the list and the trace after it, and the error it
\* sets on failure
crispy_plugin_engine_load(pl, tr, path) ==
    LET lib == PluginLibrary(path)
        n == Len(pl) + 1
    IN IF ~lib.opens
       THEN [ok |-> FALSE, plugins |-> pl, error |-> ErrPlugin,
             trace |-> Append(tr, Ev("load_failed", path, 0, 0, "NULL"))]
       ELSE IF ~lib.info
       THEN [ok |-> FALSE, plugins |-> pl, error |-> ErrPlugin,
             trace |-> tr \o <<Ev("g_module_open", path, 0, 0, "NULL"),
                               Ev("g_module_close", path, 0, 0, "NULL"),
                               Ev("load_failed", path, 0, 0, "NULL")>>]
       ELSE LET plugin_data == IF lib.init THEN "init" ELSE "NULL"
                entry == [path |-> path, plugin_data |-> plugin_data,
                          shutdown_func |-> lib.shutdown, hooks |-> lib.hooks]
            IN [ok |-> TRUE, plugins |-> Append(pl, entry), error |-> NoError,
                trace |-> tr \o <<Ev("g_module_open", path, n, 0, "NULL")>>
                             \o (IF lib.init
                                 THEN <<Ev("crispy_plugin_init", path, n, 0, plugin_data)>>
                                 ELSE <<>>)
                             \o <<Ev("loaded", path, n, 0, plugin_data)>>]

\* g_strsplit_set(s, delimiters, -1): the pieces between delimiters; the
\* empty string splits into no piece at all
RECURSIVE SplitPieces(_, _, _)
SplitPieces(s, delimiters, piece) ==
    IF s = <<>> THEN <<piece>>
    ELSE IF Head(s) \in delimiters
    THEN <<piece>> \o SplitPieces(Tail(s), delimiters, <<>>)
    ELSE SplitPieces(Tail(s), delimiters, Append(piece, Head(s)))

g_strsplit_set(s, delimiters) ==
    IF s = <<>> THEN <<>> ELSE SplitPieces(s, delimiters, <<>>)

\* the loop of crispy_plugin_engine_load_paths over tokens[k..]
RECURSIVE LoadTokens_continue(_, _, _, _)
LoadTokens_continue(pl, tr, tokens, k) ==
    IF k > Len(tokens)
    THEN [ok |-> TRUE, plugins |-> pl, error |-> NoError, trace |-> tr]
    ELSE LET token == Strip(tokens[k])
         IN IF token = EmptyStr
            THEN LoadTokens_continue(pl, tr, tokens, k + 1)
            ELSE LET r == crispy_plugin_engine_load(pl, tr, token)
                 IN LoadTokens_continue(r.plugins, r.trace, tokens, k + 1)

\* the loop of crispy_plugin_engine_load_paths over tokens[k..]
RECURSIVE LoadTokens(_, _, _, _)
LoadTokens(pl, tr, tokens, k) ==
    IF k > Len(tokens)
    THEN [ok |-> TRUE, plugins |-> pl, error |-> NoError, trace |-> tr]
    ELSE LET token == Strip(tokens[k])
         IN IF token = EmptyStr
            THEN LoadTokens(pl, tr, tokens, k + 1)
            ELSE LET r == crispy_plugin_engine_load(pl, tr, token)
                 IN IF ~r.ok THEN r
                    ELSE LoadTokens(r.plugins, r.trace, tokens, k + 1)

\* crispy_plugin_engine_load_paths
crispy_plugin_engine_load_paths(pl, tr, paths) ==
    LoadTokens(pl, tr, g_strsplit_set(paths, {":", ","}), 1)

\* plugin_entry_free
plugin_entry_free_closefirst(tr, pl, n) ==
    Append(tr, Ev("g_module_close", pl[n].path, n, 0, "NULL")) \o
    (IF pl[n].shutdown_func
     THEN <<Ev("crispy_plugin_shutdown", pl[n].path, n, 0, pl[n].plugin_data)>>
     ELSE <<>>)

\* plugin_entry_free: the shutdown function, if the plugin has one, with the
\* entry's private data, then the module is closed
plugin_entry_free(tr, pl, n) ==
    (IF pl[n].shutdown_func
     THEN Append(tr, Ev("crispy_plugin_shutdown", pl[n].path, n, 0, pl[n].plugin_data))
     ELSE tr) \o <<Ev("g_module_close", pl[n].path, n, 0, "NULL")>>

\* g_ptr_array_unref of the plugin list: the element free function on
\* every entry from n on, in the order of the list
RECURSIVE FreeEntries(_, _, _)
FreeEntries(tr, pl, n) ==
    IF n > Len(pl) THEN tr
    ELSE FreeEntries(plugin_entry_free(tr, pl, n), pl, n + 1)

\* crispy_plugin_engine_finalize: the trace after it
crispy_plugin_engine_finalize(tr, pl) ==
    Append(FreeEntries(tr, pl, 1), Ev("finalized", Null, 0, 0, "NULL"))

\* what a handler does when called: the result it returns, whether it
\* replaces the private data it was handed, and whether it overwrites the
\* hook-point and engine fields of the context
HandlerOutcomes == [result : CrispyHookResult, swap : BOOLEAN, stamp : BOOLEAN]

\* the fields of the hook context the engine writes: a context as
\* crispy_script_execute zeroes it
EngineCtx ==
    [hook_point |-> ZeroCtx.hook_point, engine |-> ZeroCtx.engine,
     plugin_data |-> "NULL"]

\* the context as the handler of outcome o leaves it
HandlerLeaves(c, o) ==
    [hook_point |-> IF o.stamp THEN CRISPY_HOOK_POINT_COUNT ELSE c.hook_point,
     engine |-> IF o.stamp THEN FALSE ELSE c.engine,
     plugin_data |-> IF o.swap THEN "swapped" ELSE c.plugin_data]

\* the handler call as the trace records it: the hook point whose handler
\* is called and the private data handed in, with the hook-point and engine
\* fields the handler finds in the context
HookEv(path, n, hook_point, c) ==
    Ev("hook", path, n, hook_point, c.plugin_data)
        @@ [ctx_hook_point |-> c.hook_point, ctx_engine |-> c.engine]

\* a dispatch loop that leaves in the context the private data the handler
\* before left there
RECURSIVE DispatchLoop_noswapin(_, _, _, _, _, _)
DispatchLoop_noswapin(pl, tr, hook_point, n, outcome, c) ==
    IF n > Len(pl)
    THEN [plugins |-> pl, trace |-> tr, result |-> CRISPY_HOOK_CONTINUE, ctx |-> c]
    ELSE IF hook_point \notin pl[n].hooks
    THEN DispatchLoop_noswapin(pl, tr, hook_point, n + 1, outcome, c)
    ELSE LET left == HandlerLeaves(c, outcome[n])
             called == tr \o <<HookEv(pl[n].path, n, hook_point, c),
                                Ev("stored", pl[n].path, n, hook_point, left.plugin_data)>>
             stored == [pl EXCEPT ![n].plugin_data = left.plugin_data]
         IN IF outcome[n].result # CRISPY_HOOK_CONTINUE
            THEN [plugins |-> stored, trace |-> called, result |-> outcome[n].result,
                  ctx |-> left]
            ELSE DispatchLoop_noswapin(stored, called, hook_point, n + 1, outcome, left)

\* the loop of crispy_plugin_engine_dispatch from entry n on, with the
\* context c; outcome[k] is what the handler of entry k does if it is
\* called; the entry's private data is put into the context, the handler is
\* called, the private data the context then holds is stored back
RECURSIVE DispatchLoop(_, _, _, _, _, _)
DispatchLoop(pl, tr, hook_point, n, outcome, c) ==
    IF n > Len(pl)
    THEN [plugins |-> pl, trace |-> tr, result |-> CRISPY_HOOK_CONTINUE, ctx |-> c]
    ELSE IF hook_point \notin pl[n].hooks
    THEN DispatchLoop(pl, tr, hook_point, n + 1, outcome, c)
    ELSE LET handed == [c EXCEPT !.plugin_data = pl[n].plugin_data]
             left == HandlerLeaves(handed, outcome[n])
             called == tr \o <<HookEv(pl[n].path, n, hook_point, handed),
                                Ev("stored", pl[n].path, n, hook_point, left.plugin_data)>>
             stored == [pl EXCEPT ![n].plugin_data = left.plugin_data]
         IN IF outcome[n].result # CRISPY_HOOK_CONTINUE
            THEN [plugins |-> stored, trace |-> called, result |-> outcome[n].result,
                  ctx |-> left]
            ELSE DispatchLoop(stored, called, hook_point, n + 1, outcome, left)

\* crispy_plugin_engine_dispatch: the hook point and the engine are written
\* into the context once, before the loop
crispy_plugin_engine_dispatch(pl, tr, hook_point, outcome, c) ==
    DispatchLoop(pl, Append(tr, Ev("dispatch", Null, 0, hook_point, "NULL")),
                 hook_point, 1, outcome,
                 [c EXCEPT !.hook_point = hook_point, !.engine = TRUE])

(***************************************************************************)
(* main.c: the configuration, then the plugins                             *)
(***************************************************************************)
\* crispy_config_context_add_plugin
crispy_config_context_add_plugin_front(c, plugin_path) ==
    IF plugin_path = Null \/ plugin_path = EmptyStr THEN c
    ELSE [c EXCEPT !.plugin_paths = <<plugin_path>> \o @]

crispy_config_context_add_plugin(c, plugin_path) ==
    IF plugin_path = Null \/ plugin_path = EmptyStr THEN c
    ELSE [c EXCEPT !.plugin_paths = Append(@, plugin_path)]

\* crispy_config_init of a configuration file that calls
\* crispy_config_context_add_plugin with declares[k..] in turn
RECURSIVE ConfigInit(_, _, _)
ConfigInit(c, declares, k) ==
    IF k > Len(declares) THEN c
    ELSE ConfigInit(crispy_config_context_add_plugin(c, declares[k]), declares, k + 1)

\* a path nothing is at
NoLib == <<"n">>

\* what configuration files declare as plugins
DeclaredPlugins ==
    {<<>>, <<HooksLib>>, <<AbortLib, HooksLib>>, <<NoLib, HooksLib>>,
     <<EmptyStr, AbortLib>>, <<Null, HooksLib>>, <<OtherLib, AbortLib>>}

\* the configuration file: whether there is one, whether it compiles and
\* loads, what its crispy_config_init declares and returns
ConfigFiles ==
    {f \in [exists : BOOLEAN, loads : BOOLEAN, declares : DeclaredPlugins,
            result : BOOLEAN] :
        /\ ~f.exists => ~f.loads
        /\ ~f.loads => (f.declares = <<>> /\ f.result)}

\* the --plugins option (Null: not given)
PluginOptions ==
    {Null, EmptyStr, HooksLib, AbortLib \o <<":">> \o HooksLib,
     HooksLib \o <<",", ",">> \o AbortLib, <<SP>> \o AbortLib \o <<SP>>,
     NoLib \o <<":">> \o HooksLib, HooksLib \o <<":">> \o NoLib \o <<",">> \o AbortLib,
     AbortLib \o <<",">> \o OtherLib}

\* number of dispatches one run of the driver is followed through
MaxDispatches == 2

InitPlugins ==
    /\ clock = 1
    /\ srcFile = [kind |-> "regular", mtime |-> 1, content |-> SrcPlain]
    /\ cache = <<>> /\ tmp = <<>> /\ fresh = {}
    /\ gcc_version \in Versions
    /\ cli \in [config : ConfigFiles, opt_plugins : PluginOptions]
    /\ pc = "config" /\ hk = 0 /\ i = 0
    /\ plugins = <<>>
    /\ config_ctx = NoConfigContext /\ engine = NoEngine /\ trace = <<>>
    /\ priv = NoScript /\ ctx = ZeroCtx /\ loc = NoLocals
    /\ error = NoError /\ ret = NoRet
    /\ hist = NoHistory
    /\ invocations = 0
    /\ fn = NoCall

scriptVars == <<clock, srcFile, cache, tmp, gcc_version, cli, hk, priv, ctx,
                loc, hist, fresh, invocations, fn>>

\* main, lines 356-438: the configuration file is compiled, loaded and its
\* crispy_config_init run; a failure of any of these leaves no configuration
ConfigLoad ==
    /\ pc = "config"
    /\ pc' = "plugins"
    /\ i' = 1
    /\ IF ~cli.config.exists
       THEN UNCHANGED <<config_ctx, trace>>
       ELSE IF ~cli.config.loads
       THEN /\ config_ctx' = NoConfigContext
            /\ trace' = Append(trace, Ev("config_failed", Null, 0, 0, "NULL"))
       ELSE /\ config_ctx' =
                   IF cli.config.result
                   THEN [ConfigInit(config_ctx, cli.config.declares, 1)
                             EXCEPT !.loaded = TRUE]
                   ELSE NoConfigContext
            /\ trace' = trace \o <<Ev("crispy_config_init", Null, 0, 0, "NULL"),
                                   Ev(IF cli.config.result THEN "config_loaded"
                                      ELSE "config_failed", Null, 0, 0, "NULL")>>
    /\ UNCHANGED <<scriptVars, plugins, engine, error, ret>>

\* the plugin paths of the configuration that are still to be loaded
ConfigPluginsLeft == config_ctx.loaded /\ i <= Len(config_ctx.plugin_paths)

\* main, lines 500-525: one turn of the loop over the configuration's plugins
DriverLoadConfigPlugin ==
    /\ pc = "plugins"
    /\ ConfigPluginsLeft
    /\ LET r == crispy_plugin_engine_load(plugins, trace, config_ctx.plugin_paths[i])
       IN /\ plugins' = r.plugins
          /\ trace' = r.trace
    /\ engine' = [engine EXCEPT !.exists = TRUE]
    /\ i' = i + 1
    /\ UNCHANGED <<scriptVars, config_ctx, pc, error, ret>>

\* main, lines 527-544: the plugins of the command line; a failure makes
\* main return 1
DriverLoadCliPlugins ==
    /\ pc = "plugins"
    /\ ~ConfigPluginsLeft
    /\ IF cli.opt_plugins = Null
       THEN /\ pc' = "hooks"
            /\ UNCHANGED <<plugins, trace, engine, error, ret>>
       ELSE LET r == crispy_plugin_engine_load_paths(plugins, trace, cli.opt_plugins)
            IN IF r.ok
               THEN /\ pc' = "hooks"
                    /\ plugins' = r.plugins
                    /\ trace' = r.trace
                    /\ engine' = [engine EXCEPT !.exists = TRUE]
                    /\ UNCHANGED <<error, ret>>
               ELSE /\ pc' = "failed"
                    /\ plugins' = r.plugins
                    /\ trace' = r.trace
                    /\ engine' = [engine EXCEPT !.exists = TRUE]
                    /\ error' = g_set_error(error, r.error)
                    /\ ret' = 1
    /\ UNCHANGED <<scriptVars, config_ctx, i>>

\* number of dispatches made so far
Dispatches == Cardinality({k \in 1..Len(trace) : trace[k].ev = "dispatch"})

\* the handler of entry k is called in a dispatch of hook_point with the
\* outcomes o: it exists and no handler before it returns non-continue
Reached(pl, hook_point, o, k) ==
    /\ hook_point \in pl[k].hooks
    /\ \A j \in 1..(k - 1) :
          hook_point \in pl[j].hooks => o[j].result = CRISPY_HOOK_CONTINUE

\* handlers that leave the hook-point and engine fields alone
PlainOutcomes == {o \in HandlerOutcomes : ~o.stamp}

\* handlers that may overwrite the hook-point and engine fields; one that
\* does so does nothing else
StampingOutcomes ==
    {o \in HandlerOutcomes : o.stamp => ~o.swap /\ o.result = CRISPY_HOOK_CONTINUE}

\* the script, run with the engine attached, dispatches a hook point; the
\* handlers behave as one of choices
Dispatching(choices) ==
    /\ pc = "hooks"
    /\ engine.exists
    /\ Dispatches < MaxDispatches
    /\ \E hook_point \in {CRISPY_HOOK_SOURCE_LOADED, CRISPY_HOOK_PRE_EXECUTE} :
       \E outcome \in {o \in [1..Len(plugins) -> choices] :
                            \A k \in 1..Len(plugins) :
                                ~Reached(plugins, hook_point, o, k)
                                    => o[k] = [result |-> CRISPY_HOOK_CONTINUE,
                                               swap |-> FALSE, stamp |-> FALSE]} :
          LET r == crispy_plugin_engine_dispatch(plugins, trace, hook_point, outcome,
                                                 EngineCtx)
          IN /\ plugins' = r.plugins
             /\ trace' = r.trace
    /\ UNCHANGED <<scriptVars, config_ctx, engine, pc, i, error, ret>>

EngineDispatch == Dispatching(PlainOutcomes)

\* main returns: the engine, if there is one, loses its last reference
DriverCleanup ==
    /\ pc \in {"hooks", "failed"}
    /\ pc' = "done"
    /\ IF engine.exists
       THEN /\ trace' = crispy_plugin_engine_finalize(trace, plugins)
            /\ plugins' = <<>>
            /\ engine' = [engine EXCEPT !.finalized = TRUE]
       ELSE UNCHANGED <<trace, plugins, engine>>
    /\ UNCHANGED <<scriptVars, config_ctx, i, error, ret>>

NextPlugins ==
    \/ ConfigLoad
    \/ DriverLoadConfigPlugin
    \/ DriverLoadCliPlugins
    \/ EngineDispatch
    \/ DriverCleanup

SpecPlugins == InitPlugins /\ [][NextPlugins]_vars

(***************************************************************************)
(* crispy-plugin-engine.c: the shared data store                           *)
(***************************************************************************)
\* a call on the data store, or of a destroy notify, as the trace records it
StoreEv(ev, key, data, destroy) ==
    [ev |-> ev, key |-> key, data |-> data, destroy |-> destroy]

\* data_store_entry_free: the destroy notify, if the entry has one and its
\* data is not NULL
data_store_entry_free(tr, key, entry) ==
    IF entry.destroy /\ entry.data # "NULL"
    THEN Append(tr, StoreEv("destroy", key, entry.data, entry.destroy))
    ELSE tr

\* crispy_plugin_engine_get_data
crispy_plugin_engine_get_data(store, key) ==
    IF key \in DOMAIN store THEN store[key].data ELSE "NULL"

\* number of calls one engine's data store is followed through
MaxStoreCalls == 3

\* calls made on the data store so far
StoreCalls == Cardinality({k \in 1..Len(trace) : trace[k].ev \in {"set", "get"}})

InitStore ==
    /\ InitPlugins
    /\ cli.config = [exists |-> FALSE, loads |-> FALSE, declares |-> <<>>, result |-> TRUE]
    /\ cli.opt_plugins = Null

\* main creates the engine
StoreNew ==
    /\ pc = "config"
    /\ pc' = "hooks"
    /\ engine' = [engine EXCEPT !.exists = TRUE]
    /\ UNCHANGED <<scriptVars, config_ctx, plugins, trace, i, error, ret>>

\* crispy_plugin_engine_set_data: g_hash_table_replace puts the new entry
\* in and frees the entry the key had
SetData_leak ==
    /\ pc = "hooks" /\ StoreCalls < MaxStoreCalls
    /\ \E key \in {"k1", "k2"}, data \in {"NULL", "p1", "p2"}, destroy \in BOOLEAN :
          /\ engine' = [engine EXCEPT !.data_store =
                           [k \in DOMAIN @ \cup {key} |->
                               IF k = key THEN [data |-> data, destroy |-> destroy]
                               ELSE @[k]]]
          /\ trace' = Append(trace, StoreEv("set", key, data, destroy))
    /\ UNCHANGED <<scriptVars, config_ctx, plugins, pc, i, error, ret>>

SetData ==
    /\ pc = "hooks" /\ StoreCalls < MaxStoreCalls
    /\ \E key \in {"k1", "k2"}, data \in {"NULL", "p1", "p2"}, destroy \in BOOLEAN :
          /\ engine' = [engine EXCEPT !.data_store =
                           [k \in DOMAIN @ \cup {key} |->
                               IF k = key THEN [data |-> data, destroy |-> destroy]
                               ELSE @[k]]]
          /\ trace' = LET set == Append(trace, StoreEv("set", key, data, destroy))
                      IN IF key \in DOMAIN engine.data_store
                         THEN data_store_entry_free(set, key, engine.data_store[key])
                         ELSE set
    /\ UNCHANGED <<scriptVars, config_ctx, plugins, pc, i, error, ret>>

\* crispy_plugin_engine_get_data, the trace keeping what it returned
GetData ==
    /\ pc = "hooks" /\ StoreCalls < MaxStoreCalls
    /\ \E key \in {"k1", "k2"} :
          trace' = Append(trace, StoreEv("get", key,
                              crispy_plugin_engine_get_data(engine.data_store, key), FALSE))
    /\ UNCHANGED <<scriptVars, config_ctx, plugins, engine, pc, i, error, ret>>

\* g_hash_table_unref in crispy_plugin_engine_finalize: every entry left is
\* freed, in the order the table happens to iterate
RECURSIVE FreeStore(_, _, _)
FreeStore(tr, store, order) ==
    IF order = <<>> THEN tr
    ELSE FreeStore(data_store_entry_free(tr, Head(order), store[Head(order)]),
                   store, Tail(order))

StoreFinalize ==
    /\ pc = "hooks"
    /\ pc' = "done"
    /\ \E order \in [1..Cardinality(DOMAIN engine.data_store) -> DOMAIN engine.data_store] :
          /\ \A a, b \in DOMAIN order : a # b => order[a] # order[b]
          /\ trace' = Append(FreeStore(trace, engine.data_store, order),
                             StoreEv("finalized", "", "NULL", FALSE))
    /\ engine' = [engine EXCEPT !.finalized = TRUE, !.data_store = <<>>]
    /\ UNCHANGED <<scriptVars, config_ctx, plugins, i, error, ret>>

NextStore == StoreNew \/ SetData \/ GetData \/ StoreFinalize

SpecStore == InitStore /\ [][NextStore]_vars

(***************************************************************************)
(* crispy-config-context.c, crispy-config-loader.c and main.c: loading the *)
(* configuration                                                           *)
(***************************************************************************)
\* a | b on guint
RECURSIVE BitOr(_, _)
BitOr(a, b) ==
    IF a = 0 THEN b
    ELSE IF b = 0 THEN a
    ELSE (IF a % 2 = 1 \/ b % 2 = 1 THEN 1 ELSE 0) + 2 * BitOr(a \div 2, b \div 2)

\* a step of the configuration load, as the trace records it
CfgEv(ev, arg) == [ev |-> ev, arg |-> arg]

\* where a pointer freed by crispy_config_context_clear_internal points
Freed == <<"FREED">>

\* crispy_config_context_init_internal
crispy_config_context_init_internal(script_argv) ==
    [loaded |-> FALSE, script_argv |-> script_argv, script_argv_owned |-> FALSE,
     extra_flags |-> Null, override_flags |-> Null,
     plugin_paths |-> <<>>, plugin_data |-> <<>>,
     flags |-> 0, flags_set |-> FALSE, cache_dir |-> Null]

\* the g_strfreev of the script argument vector that both
\* crispy_config_context_set_script_argv and
\* crispy_config_context_clear_internal start with
FreeOwnedArgv_always(tr, c) == Append(tr, CfgEv("g_strfreev", c.script_argv))

FreeOwnedArgv(tr, c) ==
    IF c.script_argv_owned /\ c.script_argv # "NULL"
    THEN Append(tr, CfgEv("g_strfreev", c.script_argv))
    ELSE tr

\* crispy_config_context_clear_internal: what it leaves of the context
crispy_config_context_clear_internal(c) ==
    [c EXCEPT !.extra_flags = Freed, !.override_flags = Freed, !.cache_dir = Freed,
              !.plugin_paths = <<Freed>>, !.plugin_data = <<Freed>>]

crispy_config_context_set_extra_flags(c, flags) == [c EXCEPT !.extra_flags = flags]
crispy_config_context_set_override_flags(c, flags) == [c EXCEPT !.override_flags = flags]
crispy_config_context_set_cache_dir(c, cache_dir) == [c EXCEPT !.cache_dir = cache_dir]

\* crispy_config_context_set_plugin_data: g_hash_table_replace
crispy_config_context_set_plugin_data(c, key, value) ==
    IF key = Null THEN c
    ELSE [c EXCEPT !.plugin_data =
             [k \in DOMAIN @ \cup {key} |-> IF k = key THEN value ELSE @[k]]]

crispy_config_context_set_flags_keep(c, flags) == [c EXCEPT !.flags = flags]

crispy_config_context_set_flags(c, flags) ==
    [c EXCEPT !.flags = flags, !.flags_set = TRUE]

crispy_config_context_add_flags(c, flags) ==
    [c EXCEPT !.flags = BitOr(@, flags), !.flags_set = TRUE]

\* crispy_config_context_set_script_argv, after the old vector is freed
crispy_config_context_set_script_argv(c, argv) ==
    [c EXCEPT !.script_argv = argv, !.script_argv_owned = TRUE]

\* what crispy_config_init may call on the context
SetterCalls ==
    {<<"set_flags", 0>>, <<"set_flags", CRISPY_FLAG_FORCE_COMPILE>>,
     <<"add_flags", 0>>, <<"add_flags", CRISPY_FLAG_DRY_RUN>>,
     <<"set_extra_flags", <<"x">>>>, <<"set_override_flags", <<"z">>>>,
     <<"add_plugin", HooksLib>>, <<"set_plugin_data", <<"k">>>>,
     <<"set_cache_dir", <<"d">>>>,
     <<"set_script_argv", "v1">>, <<"set_script_argv", "v2">>,
     <<"set_script_argv", "argv">>, <<"set_script_argv", "NULL">>}

\* the context after the setter call
ApplySetter(c, call) ==
    CASE call[1] = "set_flags" -> crispy_config_context_set_flags(c, call[2])
      [] call[1] = "add_flags" -> crispy_config_context_add_flags(c, call[2])
      [] call[1] = "set_extra_flags" -> crispy_config_context_set_extra_flags(c, call[2])
      [] call[1] = "set_override_flags" -> crispy_config_context_set_override_flags(c, call[2])
      [] call[1] = "add_plugin" -> crispy_config_context_add_plugin(c, call[2])
      [] call[1] = "set_plugin_data" -> crispy_config_context_set_plugin_data(c, call[2], <<"v">>)
      [] call[1] = "set_cache_dir" -> crispy_config_context_set_cache_dir(c, call[2])
      [] call[1] = "set_script_argv" -> crispy_config_context_set_script_argv(c, call[2])

\* number of setter calls one crispy_config_init is followed through
MaxEntryCalls == 3

\* setter calls made so far
EntryCalls == Cardinality({k \in 1..Len(trace) : trace[k].ev \in {c[1] : c \in SetterCalls}})

\* main with a script file to run and --preserve: whether a configuration
\* file is found, whether --cache-dir is given
InitConfig ==
    /\ clock = 1
    /\ srcFile = [kind |-> "regular", mtime |-> 1, content |-> SrcPlain]
    /\ cache = <<>> /\ tmp = <<>> /\ fresh = {}
    /\ gcc_version \in Versions
    /\ \E config \in BOOLEAN, opt_cache_dir \in {Null, <<"c">>},
          opt_flags \in {CRISPY_FLAG_PRESERVE_SOURCE} :
          cli = [config |-> config, opt_cache_dir |-> opt_cache_dir,
                 opt_flags |-> opt_flags, cache_dir |-> opt_cache_dir,
                 script_argv |-> "argv", flags |-> 0, mode |-> "file",
                 plugins |-> -1, writes |-> {}, extra |-> Null, override |-> Null]
    /\ pc = "config" /\ hk = 0 /\ i = 0
    /\ plugins = <<>>
    /\ config_ctx = NoConfigContext /\ engine = NoEngine /\ trace = <<>>
    /\ priv = NoScript /\ ctx = ZeroCtx /\ loc = NoLocals
    /\ error = NoError /\ ret = NoRet
    /\ hist = NoHistory
    /\ invocations = 0
    /\ fn = NoCall

configRest == <<clock, srcFile, cache, tmp, gcc_version, hk, ctx, loc, hist, fresh,
                invocations, i, ret>>

\* crispy_config_loader_compile_and_load up to the call of crispy_config_init,
\* or to the step that fails: reading the file, expanding its parameters,
\* compiling it unless the cache has a valid artifact, opening the module,
\* finding crispy_config_init
LoaderSteps == <<"read", "expand", "compile", "g_module_open", "symbol", "crispy_config_init">>

LoaderTrace(stop, valid) ==
    (IF stop = "read" THEN <<CfgEv("read", FALSE)>> ELSE <<CfgEv("read", TRUE)>>)
    \o (IF stop = "read" THEN <<>> ELSE <<CfgEv("expand", stop # "expand")>>)
    \o (IF stop \in {"read", "expand"} THEN <<>>
        ELSE <<CfgEv("has_valid", valid)>>
             \o (IF valid THEN <<>> ELSE <<CfgEv("compile", stop # "compile")>>))
    \o (IF stop \in {"read", "expand", "compile"} THEN <<>>
        ELSE <<CfgEv("g_module_open", stop # "g_module_open")>>)
    \o (IF stop = "symbol" THEN <<CfgEv("g_module_close", TRUE)>> ELSE <<>>)
    \o (IF stop = "crispy_config_init" THEN <<CfgEv("crispy_config_init", TRUE)>> ELSE <<>>)

LoaderError(stop) ==
    CASE stop = "read" -> ErrFile
      [] stop = "expand" -> ErrSpawn
      [] stop = "compile" -> ErrCompile
      [] OTHER -> ErrConfig

ConfigLoaderBegin ==
    /\ pc = "config"
    /\ cli.config
    /\ config_ctx' = crispy_config_context_init_internal(cli.script_argv)
    /\ \E k \in DOMAIN LoaderSteps, valid \in BOOLEAN :
          /\ (valid => LoaderSteps[k] # "compile")
          /\ trace' = trace \o LoaderTrace(LoaderSteps[k], valid)
          /\ IF LoaderSteps[k] = "crispy_config_init"
             THEN /\ pc' = "entry"
                  /\ fn' = [name |-> "compile_and_load", args |-> <<>>, result |-> <<>>]
                  /\ UNCHANGED error
             ELSE /\ pc' = "returned"
                  /\ fn' = [name |-> "compile_and_load", args |-> <<>>, result |-> <<FALSE>>]
                  /\ error' = g_set_error(error, LoaderError(LoaderSteps[k]))
    /\ UNCHANGED <<configRest, cli, priv, plugins, engine>>

\* crispy_config_init calls a setter
ConfigEntryCall ==
    /\ pc = "entry"
    /\ EntryCalls < MaxEntryCalls
    /\ \E call \in SetterCalls :
          /\ config_ctx' = ApplySetter(config_ctx, call)
          /\ trace' = IF call[1] = "set_script_argv"
                      THEN FreeOwnedArgv(Append(trace, CfgEv(call[1], call[2])), config_ctx)
                      ELSE Append(trace, CfgEv(call[1], call[2]))
    /\ UNCHANGED <<configRest, cli, priv, plugins, engine, pc, fn, error>>

\* crispy_config_init returns, and crispy_config_loader_compile_and_load
\* with it
ConfigEntryReturn_true ==
    /\ pc = "entry"
    /\ pc' = "returned"
    /\ \E result \in BOOLEAN :
          /\ fn' = [fn EXCEPT !.result = <<TRUE>>]
          /\ trace' = Append(trace, CfgEv("return", result))
          /\ UNCHANGED error
    /\ UNCHANGED <<configRest, cli, priv, plugins, engine, config_ctx>>

ConfigEntryReturn ==
    /\ pc = "entry"
    /\ pc' = "returned"
    /\ \E result \in BOOLEAN :
          /\ fn' = [fn EXCEPT !.result = <<result>>]
          /\ IF result
             THEN /\ trace' = Append(trace, CfgEv("return", result))
                  /\ UNCHANGED error
             ELSE /\ trace' = trace \o <<CfgEv("return", result), CfgEv("g_module_close", TRUE)>>
                  /\ error' = g_set_error(error, ErrConfig)
    /\ UNCHANGED <<configRest, cli, priv, plugins, engine, config_ctx>>

\* main, lines 381-436: a failed load is warned about and the context
\* cleared; a load that succeeded may move the cache directory and replace
\* the script's argument vector
DriverAfterConfig_keep ==
    /\ pc = "returned"
    /\ pc' = "apply"
    /\ config_ctx' = [config_ctx EXCEPT !.loaded = TRUE]
    /\ cli' = [cli EXCEPT
                 !.cache_dir = IF config_ctx.cache_dir # Null /\ cli.opt_cache_dir = Null
                               THEN config_ctx.cache_dir ELSE @,
                 !.script_argv = config_ctx.script_argv]
    /\ error' = NoError
    /\ trace' = IF fn.result = <<TRUE>> THEN trace ELSE Append(trace, CfgEv("warning", TRUE))
    /\ UNCHANGED <<configRest, priv, plugins, engine, fn>>

DriverAfterConfig ==
    /\ pc = "returned"
    /\ pc' = "apply"
    /\ IF fn.result = <<TRUE>>
       THEN /\ config_ctx' = [config_ctx EXCEPT !.loaded = TRUE]
            /\ cli' = [cli EXCEPT
                         !.cache_dir = IF config_ctx.cache_dir # Null /\ cli.opt_cache_dir = Null
                                       THEN config_ctx.cache_dir ELSE @,
                         !.script_argv = config_ctx.script_argv]
            /\ UNCHANGED <<error, trace>>
       ELSE /\ trace' = FreeOwnedArgv(Append(trace, CfgEv("warning", TRUE)), config_ctx)
            /\ error' = NoError
            /\ config_ctx' = crispy_config_context_clear_internal(config_ctx)
            /\ UNCHANGED cli
    /\ UNCHANGED <<configRest, priv, plugins, engine, fn>>

\* the loop of main over the configuration's plugin paths from k on: a
\* plugin that fails to load is warned about
RECURSIVE LoadConfigPlugins(_, _, _)
LoadConfigPlugins(pl, paths, k) ==
    IF k > Len(paths) THEN pl
    ELSE LoadConfigPlugins(crispy_plugin_engine_load(pl, <<>>, paths[k]).plugins, paths, k + 1)

\* main, lines 457-641: the flag set, the configuration's plugins and
\* plugin data, the script record with the configuration's compiler flags
DriverApply ==
    /\ pc = "apply" \/ (pc = "config" /\ ~cli.config)
    /\ pc' = "created"
    /\ LET loaded == pc = "apply" /\ config_ctx.loaded
           has_engine == loaded /\ config_ctx.plugin_paths # <<>>
           c == [cli EXCEPT
                    !.flags = BitOr(IF loaded /\ config_ctx.flags_set
                                    THEN config_ctx.flags ELSE 0, cli.opt_flags),
                    !.extra = IF loaded THEN config_ctx.extra_flags ELSE Null,
                    !.override = IF loaded THEN config_ctx.override_flags ELSE Null,
                    !.plugins = IF has_engine THEN 0 ELSE -1]
       IN /\ cli' = c
          /\ priv' = CreateScript(c, srcFile.content)
          /\ plugins' = IF has_engine
                        THEN LoadConfigPlugins(plugins, config_ctx.plugin_paths, 1)
                        ELSE plugins
          /\ engine' = IF has_engine
                       THEN [engine EXCEPT !.exists = TRUE,
                                !.data_store = [k \in DOMAIN config_ctx.plugin_data |->
                                    [data |-> config_ctx.plugin_data[k], destroy |-> TRUE]]]
                       ELSE engine
    /\ UNCHANGED <<configRest, config_ctx, trace, fn, error>>

\* main, lines 647-679: the script is run with the script argument vector,
\* then the context of a loaded configuration is cleared
DriverRunAndClear ==
    /\ pc = "created"
    /\ pc' = "done"
    /\ IF config_ctx.loaded
       THEN /\ trace' = FreeOwnedArgv(Append(trace, CfgEv("execute", cli.script_argv)),
                                      config_ctx)
            /\ config_ctx' = crispy_config_context_clear_internal(config_ctx)
       ELSE /\ trace' = Append(trace, CfgEv("execute", cli.script_argv))
            /\ UNCHANGED config_ctx
    /\ UNCHANGED <<configRest, cli, priv, plugins, engine, fn, error>>

NextConfig ==
    \/ ConfigLoaderBegin
    \/ ConfigEntryCall
    \/ ConfigEntryReturn
    \/ DriverAfterConfig
    \/ DriverApply
    \/ DriverRunAndClear

SpecConfig == InitConfig /\ [][NextConfig]_vars

(***************************************************************************)
(* crispy-source-utils-private.c applied on its own                        *)
(***************************************************************************)
\* number of lines of the source texts
MaxLines == 3

\* the lines source texts are made of: code, a shebang, the parameter
\* macro plain and indented, another macro, a string literal, a comment
\* that mentions the macro's name, the empty line
SourceLines ==
    {<<"m">>,
     SHEBANG_KW \o <<"x">>,
     DEFINE_KW \o <<SP>> \o PARAMS_KW \o <<SP, QUOTE, "a", QUOTE>>,
     <<SP, TAB>> \o DEFINE_KW \o <<SP>> \o PARAMS_KW \o <<SP, QUOTE, "b", QUOTE>>,
     DEFINE_KW \o <<SP, "A">>,
     <<"s", QUOTE, "q", QUOTE>>,
     <<"/", "/">> \o PARAMS_KW,
     EmptyStr}

\* the texts of at most n lines, every line ended by a newline
RECURSIVE TerminatedTexts(_)
TerminatedTexts(n) ==
    IF n = 0 THEN {EmptyStr}
    ELSE LET shorter == TerminatedTexts(n - 1)
         IN shorter \cup {l \o <<NL>> \o t : l \in SourceLines, t \in shorter}

\* the texts of at most MaxLines lines, the last line with or without newline
SourceTexts ==
    TerminatedTexts(MaxLines)
        \cup {t \o l : t \in TerminatedTexts(MaxLines - 1), l \in SourceLines}

InitSource ==
    /\ clock = 0
    /\ srcFile = [kind |-> "none", mtime |-> 0, content |-> Null]
    /\ cache = <<>> /\ tmp = <<>> /\ fresh = {}
    /\ gcc_version \in Versions
    /\ cli = [flags |-> 0, mode |-> "file", plugins |-> -1, writes |-> {},
              extra |-> Null, override |-> Null]
    /\ pc = "idle" /\ hk = 0 /\ i = 0
    /\ plugins = <<>>
    /\ config_ctx = NoConfigContext /\ engine = NoEngine /\ trace = <<>>
    /\ priv = NoScript /\ ctx = ZeroCtx /\ loc = NoLocals
    /\ error = NoError /\ ret = NoRet
    /\ hist = NoHistory
    /\ invocations = 0
    /\ \E source \in SourceTexts :
          fn = [name |-> "source", args |-> <<source>>, result |-> <<>>]

\* parse_crispy_params: the parameters extracted and the header stripped;
\* and the parameters extracted from the stripped text
SourceCall ==
    /\ fn.name = "source" /\ fn.result = <<>>
    /\ fn' = [fn EXCEPT !.result =
                 <<crispy_source_extract_params(fn.args[1]),
                   crispy_source_strip_header(fn.args[1]),
                   crispy_source_extract_params(crispy_source_strip_header(fn.args[1]))>>]
    /\ UNCHANGED pipelineVars

NextSource == SourceCall

SpecSource == InitSource /\ [][NextSource]_vars

(***************************************************************************)
(* main.c: from crispy_script_execute's return to the driver's exit        *)
(***************************************************************************)
\* what the driver does that can be seen from outside the process
DriverEv(ev, arg) == [ev |-> ev, arg |-> arg]

\* crispy_script_get_temp_source_path
crispy_script_get_temp_source_path(p) == p.temp_source_path

\* a finalize that removes the temp source whatever the flags say
crispy_script_finalize_always(tr, files, p) ==
    [trace |-> (IF p.module.open
                THEN Append(tr, DriverEv("g_module_close", p.hash)) ELSE tr)
               \o (IF p.temp_source_path # 0
                   THEN <<DriverEv("g_unlink", p.temp_source_path)>> ELSE <<>>),
     tmp |-> IF p.temp_source_path # 0
             THEN [k \in DOMAIN files \ {p.temp_source_path} |-> files[k]]
             ELSE files]

\* crispy_script_finalize: the module is closed if one is loaded; the temp
\* source is removed unless the record's flags say it is to be preserved
crispy_script_finalize(tr, files, p) ==
    LET unlink == p.temp_source_path # 0
                    /\ ~HasFlag(p.flags, CRISPY_FLAG_PRESERVE_SOURCE)
    IN [trace |-> (IF p.module.open
                   THEN Append(tr, DriverEv("g_module_close", p.hash)) ELSE tr)
                  \o (IF unlink
                      THEN <<DriverEv("g_unlink", p.temp_source_path)>> ELSE <<>>),
        tmp |-> IF unlink
                THEN [k \in DOMAIN files \ {p.temp_source_path} |-> files[k]]
                ELSE files]

\* the last run of the driver: a script file that exists or not, any flags,
\* plugins that may abort with or without an error, a cache directory an
\* earlier run may have filled
InitDriver ==
    /\ clock = 1
    /\ srcFile \in {[kind |-> "regular", mtime |-> 1, content |-> SrcParams],
                    [kind |-> "none", mtime |-> 0, content |-> Null]}
    /\ gcc_version \in Versions
    /\ cli \in {c \in CommandLines :
                    /\ c.writes = {"none", "force"}
                    /\ c.extra = Null /\ c.override = Null}
    /\ cache \in IF srcFile.kind = "regular" \/ cli.mode = "inline"
                 THEN EarlierCaches(cli, srcFile.content, gcc_version, 0..1)
                 ELSE {<<>>}
    /\ tmp = <<>>
    /\ InitScript
    /\ invocations = MaxInvocations - 1
    /\ fn = NoCall

\* main after script creation failed (pc "exited") or after
\* crispy_script_execute returned: the diagnostics, the exit code, and at
\* the return the release of the script record; priv keeps what the record
\* held when it was released
DriverFinish ==
    /\ pc \in {"returned", "exited"}
    /\ pc' = "done"
    /\ LET fatal == IF pc = "exited" THEN TRUE ELSE ret < 0 /\ error # NoError
           exit_code == IF pc = "exited" \/ fatal THEN 1 ELSE ret
           path == crispy_script_get_temp_source_path(priv)
           t1 == IF fatal THEN Append(trace, DriverEv("g_printerr", "Error:"))
                 ELSE trace
           t2 == IF pc = "returned" /\ path # 0
                    /\ HasFlag(cli.flags, CRISPY_FLAG_PRESERVE_SOURCE)
                 THEN Append(t1, DriverEv("g_printerr", "Temp source preserved:"))
                 ELSE t1
           fin == IF pc = "returned" THEN crispy_script_finalize(t2, tmp, priv)
                  ELSE [trace |-> t2, tmp |-> tmp]
       IN /\ trace' = Append(fin.trace, DriverEv("return", exit_code))
          /\ tmp' = fin.tmp
    /\ UNCHANGED <<clock, srcFile, cache, gcc_version, cli, hk, i, plugins, priv,
                   ctx, loc, error, ret, hist, fresh, invocations, fn,
                   config_ctx, engine>>

NextDriver ==
    \/ DriverSetup
    \/ ExecuteBegin
    \/ DispatchReturn
    \/ DispatchSkip
    \/ DispatchCall
    \/ AfterSourceLoaded
    \/ AfterParamsExpanded
    \/ AfterHashComputed
    \/ AfterCacheChecked
    \/ AfterPreCompile
    \/ AfterPostCompile
    \/ AfterModuleLoaded
    \/ AfterPreExecute
    \/ AfterPostExecute
    \/ DriverFinish

SpecDriver == InitDriver /\ [][NextDriver]_vars

(***************************************************************************)
(* crispy-file-cache.c: purge                                              *)
(***************************************************************************)
\* a purge that unlinks every entry, whatever its name
file_cache_purge_all(dir, openable, writable) ==
    IF ~openable
    THEN [ok |-> FALSE, cache |-> dir, count |-> 0, error |-> ErrFile]
    ELSE LET gone == {name \in DOMAIN dir : dir[name].file.kind = "regular"}
         IN [ok |-> TRUE,
             cache |-> [name \in DOMAIN dir \ gone |-> dir[name]],
             count |-> Cardinality(gone), error |-> NoError]

\* file_cache_purge: g_dir_open fails with the error set; otherwise every
\* entry whose name ends in .so is unlinked; g_unlink removes it unless it
\* is a directory or the cache directory cannot be written to, and the
\* number of removed entries is logged
file_cache_purge(dir, openable, writable) ==
    IF ~openable
    THEN [ok |-> FALSE, cache |-> dir, count |-> 0, error |-> ErrFile]
    ELSE LET gone == {name \in DOMAIN dir :
                         /\ HasSuffix(name, SO_SUFFIX)
                         /\ dir[name].file.kind = "regular"
                         /\ writable}
         IN [ok |-> TRUE,
             cache |-> [name \in DOMAIN dir \ gone |-> dir[name]],
             count |-> Cardinality(gone), error |-> NoError]

\* the fingerprints looked up after a purge
PurgeHashes == {<<"h">>, <<"k">>, EmptyStr}

\* names in the cache directory: artifacts, a name that is the bare suffix,
\* a source file, a name ending in so without the dot
PurgeNames ==
    {file_cache_get_path(h) : h \in PurgeHashes}
        \cup {<<"n", ".", "c">>, <<"s", "o">>}

PurgeEntry(file) ==
    [file |-> file, src |-> SrcPlain, flags |-> EmptyStr, has_main |-> TRUE]

\* the cache directory holds any of the names, as regular files or as
\* directories
InitPurge ==
    /\ clock = 1
    /\ srcFile = [kind |-> "regular", mtime |-> 0, content |-> SrcPlain]
    /\ gcc_version \in Versions
    /\ cli = [flags |-> 0, mode |-> "file", plugins |-> -1, writes |-> {},
              extra |-> Null, override |-> Null]
    /\ \E names \in SUBSET PurgeNames :
          cache \in [names -> {PurgeEntry(RegularFile(1)), PurgeEntry(Directory(1))}]
    /\ tmp = <<>>
    /\ InitScript
    /\ invocations = 0
    /\ fn = [name |-> "purge", args |-> <<>>, result |-> <<>>]

purgeRest == <<clock, srcFile, tmp, gcc_version, cli, pc, hk, i, plugins,
               priv, ctx, loc, ret, hist, fresh, invocations,
               config_ctx, engine, trace>>

\* crispy_cache_provider_purge is called; the directory can be opened or
\* not, and written to or not.  The result keeps the directory as it was
\* before the call and whether it could be written to.
PurgeCall ==
    /\ fn.name = "purge" /\ fn.result = <<>>
    /\ \E openable \in BOOLEAN, writable \in BOOLEAN :
          LET r == file_cache_purge(cache, openable, writable)
          IN /\ cache' = r.cache
             /\ error' = g_set_error(error, r.error)
             /\ fn' = [fn EXCEPT !.args = <<cache>>,
                                 !.result = <<r.ok, r.count, {}, writable>>]
    /\ UNCHANGED purgeRest

\* after the purge an artifact is compiled again at a fingerprint's path
PurgeCompile ==
    /\ fn.name = "purge" /\ fn.result # <<>>
    /\ \E h \in PurgeHashes :
          /\ Lookup(cache, file_cache_get_path(h)).kind = "none"
          /\ cache' = (file_cache_get_path(h) :> PurgeEntry(RegularFile(clock))) @@ cache
          /\ fn' = [fn EXCEPT !.result[3] = @ \cup {h}]
    /\ UNCHANGED <<error, purgeRest>>

NextPurge == PurgeCall \/ PurgeCompile

SpecPurge == InitPurge /\ [][NextPurge]_vars

(***************************************************************************)
(* Dispatches to handlers that write into the context                      *)
(***************************************************************************)
\* the plugin lists the engine has loaded
LoadedLists ==
    {HooksLib, HooksLib \o <<":">> \o AbortLib, AbortLib \o <<":">> \o HooksLib,
     HooksLib \o <<":">> \o HooksLib}

\* main has loaded the plugins of the command line, no configuration
InitDispatch ==
    /\ clock = 1
    /\ srcFile = [kind |-> "regular", mtime |-> 1, content |-> SrcPlain]
    /\ cache = <<>> /\ tmp = <<>> /\ fresh = {}
    /\ gcc_version \in Versions
    /\ cli \in [config : {[exists |-> FALSE, loads |-> FALSE, declares |-> <<>>,
                           result |-> TRUE]},
                opt_plugins : LoadedLists]
    /\ pc = "hooks" /\ hk = 0 /\ i = 0
    /\ plugins = crispy_plugin_engine_load_paths(<<>>, <<>>, cli.opt_plugins).plugins
    /\ trace = crispy_plugin_engine_load_paths(<<>>, <<>>, cli.opt_plugins).trace
    /\ config_ctx = NoConfigContext
    /\ engine = [NoEngine EXCEPT !.exists = TRUE]
    /\ priv = NoScript /\ ctx = ZeroCtx /\ loc = NoLocals
    /\ error = NoError /\ ret = NoRet
    /\ hist = NoHistory
    /\ invocations = 0
    /\ fn = NoCall

ContextDispatch == Dispatching(StampingOutcomes)

NextDispatch == ContextDispatch \/ DriverCleanup

SpecDispatch == InitDispatch /\ [][NextDispatch]_vars

(***************************************************************************)
(* One run with handlers that write every mutable field at every hook      *)
(***************************************************************************)
\* the last run of the driver on a script file, with one or two plugins
\* whose handlers write any mutable field of the context at any hook
\* point, over a cache directory an earlier run may have filled
InitWrites ==
    /\ clock = 1
    /\ srcFile = [kind |-> "regular", mtime |-> 1, content |-> SrcParams]
    /\ gcc_version \in Versions
    /\ cli \in {c \in CommandLines :
                    /\ c.writes = HandlerWrites
                    /\ c.flags = 0 /\ c.mode = "file"
                    /\ c.plugins \in {1, 2}
                    /\ c.extra = Null /\ c.override = Null}
    /\ cache \in EarlierCaches(cli, srcFile.content, gcc_version, {1})
    /\ tmp = <<>>
    /\ InitScript
    /\ invocations = MaxInvocations - 1
    /\ fn = NoCall

SpecWrites == InitWrites /\ [][NextRun]_vars

(***************************************************************************)
(* main.c: the interrupt handler                                           *)
(***************************************************************************)
\* the driver's copy of the temp source path: taken from the script record
\* right after its creation, before crispy_script_execute is called, and
\* left alone until the cleanup at the end of main
g_temp_source_path ==
    crispy_script_get_temp_source_path(CreateScript(cli, srcFile.content))

\* on_signal: remove the file the driver's copy of the path names, if it
\* names one, and exit with status 130
on_signal(tr, files, path) ==
    [trace |-> (IF path # 0 THEN Append(tr, DriverEv("g_unlink", path)) ELSE tr)
               \o <<DriverEv("exit", 130)>>,
     tmp |-> IF path # 0
             THEN [k \in DOMAIN files \ {path} |-> files[k]]
             ELSE files]

\* a SIGINT or SIGTERM has been delivered and on_signal has not run
SignalPending ==
    /\ \E k \in 1..Len(trace) : trace[k].ev = "signal"
    /\ \A k \in 1..Len(trace) : trace[k].ev # "exit"

\* one run of the driver on a script file, the signal handlers installed
\* (g_unix_signal_add) before the script record is created
InitSignal ==
    /\ clock = 1
    /\ srcFile = [kind |-> "regular", mtime |-> 1, content |-> SrcParams]
    /\ gcc_version \in Versions
    /\ cli \in {c \in CommandLines :
                    /\ c.writes = {"none"} /\ c.mode = "file"
                    /\ c.plugins \in {-1, 1}
                    /\ c.extra = Null /\ c.override = Null}
    /\ cache \in EarlierCaches(cli, srcFile.content, gcc_version, {1})
    /\ tmp = <<>>
    /\ InitScript
    /\ invocations = MaxInvocations - 1
    /\ fn = NoCall

\* SIGINT or SIGTERM is delivered while crispy_script_execute runs: the
\* handler GLib installed for the signal source marks the source ready and
\* returns; the event records the temp source path the record holds then
Interrupt ==
    /\ pc \in {"dispatch", "after"}
    /\ \A k \in 1..Len(trace) : trace[k].ev # "signal"
    /\ trace' = Append(trace, DriverEv("signal", priv.temp_source_path))
    /\ UNCHANGED <<clock, srcFile, cache, tmp, gcc_version, cli, pc, hk, i,
                   plugins, priv, ctx, loc, error, ret, hist, fresh,
                   invocations, fn, config_ctx, engine>>

\* the script's main is called and iterates the default main context with
\* the signal source ready: on_signal is dispatched and the process exits
\* inside it, the script record never released
MainIteratesContext ==
    /\ pc = "after" /\ hk = CRISPY_HOOK_PRE_EXECUTE
    /\ ~Aborted
    /\ SignalPending
    /\ LET r == on_signal(trace, tmp, g_temp_source_path)
       IN trace' = r.trace /\ tmp' = r.tmp
    /\ hist' = [hist EXCEPT !.mainCalls = @ + 1, !.mainArgv = ctx.argv]
    /\ pc' = "done"
    /\ UNCHANGED <<clock, srcFile, cache, gcc_version, cli, hk, i, plugins,
                   priv, ctx, loc, error, ret, fresh, invocations, fn,
                   config_ctx, engine>>

NextSignal ==
    \/ NextDriver
    \/ Interrupt
    \/ MainIteratesContext

SpecSignal == InitSignal /\ [][NextSignal]_vars

\* the driver, the script and the handlers keep running: no step that can
\* be taken is put off for ever
SpecSignalLive == SpecSignal /\ WF_vars(NextSignal)

(***************************************************************************)
(* Two driver processes on one cache directory                             *)
(***************************************************************************)
\* the two processes; in this specification pc, priv, loc, error, ret and
\* hist hold one value per process
Invocations == {1, 2}

\* the command line both processes share but for the force-compile flag
SharedCli ==
    [flags |-> 0, mode |-> "file", plugins |-> -1, writes |-> {"none"},
     extra |-> Null, override |-> Null]

\* the script record of a process when the fingerprint has been computed
HashedScript(flags, content, version) ==
    LET p0 == CreateScript([SharedCli EXCEPT !.flags = flags], content)
        p1 == [p0 EXCEPT !.expanded_params = crispy_source_shell_expand(p0.crispy_params)]
    IN [p1 EXCEPT !.hash = file_cache_compute_hash(p1.source_content,
                                                    Len(p1.source_content),
                                                    HashFlags(p1), version)]

\* the path of the artifact, the same for both processes
SharedPath == ArtifactPath(SharedCli, srcFile.content, gcc_version)

\* both processes have computed the fingerprint of the same script file;
\* the directory is empty or holds the artifact an earlier run completed,
\* older or not older than the script file
InitShared ==
    /\ clock = 1
    /\ srcFile = [kind |-> "regular", mtime |-> 1, content |-> SrcParams]
    /\ gcc_version \in Versions
    /\ cli = SharedCli
    /\ cache \in {<<>>} \cup
                 {SharedPath :> (EarlierArtifact(SharedCli, srcFile.content, t, TRUE)
                                   @@ [complete |-> TRUE, writer |-> 0]) : t \in 0..1}
    /\ tmp = <<>>
    /\ hk = 0 /\ i = 0 /\ plugins = <<>> /\ ctx = ZeroCtx /\ fresh = {}
    /\ config_ctx = NoConfigContext /\ engine = NoEngine /\ trace = <<>>
    /\ invocations = 0 /\ fn = NoCall
    /\ pc = [p \in Invocations |-> "hashed"]
    /\ priv \in [Invocations -> {HashedScript(f, srcFile.content, gcc_version) :
                                     f \in {0, CRISPY_FLAG_FORCE_COMPILE}}]
    /\ loc = [p \in Invocations |->
                 [NoLocals EXCEPT !.argv = ScriptArgv, !.cached_so_path = SharedPath]]
    /\ error = [p \in Invocations |-> NoError]
    /\ ret = [p \in Invocations |-> NoRet]
    /\ hist = [p \in Invocations |-> NoHistory]

sharedRest == <<clock, srcFile, gcc_version, cli, hk, i, plugins, ctx, fresh,
                invocations, fn, config_ctx, engine>>

\* whether the file at the artifact's path is one its writer has finished
Complete(dir, path) == path \in DOMAIN dir /\ dir[path].complete

\* process p consults the cache: file_cache_has_valid looks at the kind of
\* the entry and at its modification time, nothing else
SharedCheck(p) ==
    /\ pc[p] = "hashed"
    /\ LET consult == ConsultCache(priv[p].flags)
           valid == file_cache_has_valid(Lookup(cache, loc[p].cached_so_path),
                                         priv[p].source_path, SourceEntry)
           cache_hit == IF consult THEN valid ELSE FALSE
       IN /\ loc' = [loc EXCEPT ![p].cache_hit = cache_hit]
          /\ trace' = IF consult /\ loc[p].cached_so_path \in DOMAIN cache
                      THEN Append(trace, DriverEv("has_valid",
                                                  <<p, cache[loc[p].cached_so_path].complete>>))
                      ELSE trace
    /\ pc' = [pc EXCEPT ![p] = "checked"]
    /\ UNCHANGED <<cache, tmp, priv, error, ret, hist>>
    /\ UNCHANGED sharedRest

\* process p, on a miss, writes its temp source and starts gcc with the
\* artifact's path as output: the linker creates the file there and has
\* not written all of it yet
SharedCompileBegin(p) ==
    /\ pc[p] = "checked" /\ ~loc[p].cache_hit
    /\ LET id == NewTmpId
       IN /\ tmp' = (id :> priv[p].modified_source) @@ tmp
          /\ priv' = [priv EXCEPT ![p].temp_source_path = id]
          /\ cache' = (loc[p].cached_so_path :>
                          [file |-> RegularFile(clock),
                           src |-> priv[p].modified_source,
                           flags |-> CompileFlags(priv[p], Null),
                           has_main |-> TRUE,
                           complete |-> FALSE, writer |-> p]) @@ cache
    /\ hist' = [hist EXCEPT ![p].compiles = @ + 1, ![p].tmpWrites = @ + 1]
    /\ pc' = [pc EXCEPT ![p] = "gcc"]
    /\ UNCHANGED <<loc, error, ret, trace>>
    /\ UNCHANGED sharedRest

\* the gcc process p started exits with status 0: the file it created is
\* written in full; when the other process's gcc has replaced that file at
\* the path in the meantime, the path keeps the other's file
SharedCompileEnd(p) ==
    /\ pc[p] = "gcc"
    /\ cache' = IF cache[loc[p].cached_so_path].writer = p
                THEN [cache EXCEPT ![loc[p].cached_so_path].complete = TRUE]
                ELSE cache
    /\ pc' = [pc EXCEPT ![p] = "compiled"]
    /\ UNCHANGED <<tmp, priv, loc, error, ret, hist, trace>>
    /\ UNCHANGED sharedRest

\* process p opens the artifact (g_module_open), after its compilation or
\* straight after a hit; the loader refuses the file or maps what it finds
\* at the path, which the writer may not have finished
SharedLoad(p) ==
    /\ \/ pc[p] = "compiled"
       \/ pc[p] = "checked" /\ loc[p].cache_hit
    /\ LET e == cache[loc[p].cached_so_path]
       IN /\ trace' = Append(trace, DriverEv("g_module_open", <<p, e.complete>>))
          /\ hist' = [hist EXCEPT ![p].opens = @ + 1]
          /\ \/ /\ priv' = [priv EXCEPT ![p].module =
                               [open |-> TRUE, src |-> e.src, flags |-> e.flags,
                                has_main |-> e.has_main, complete |-> e.complete]]
                /\ pc' = [pc EXCEPT ![p] = "loaded"]
                /\ UNCHANGED <<error, ret>>
             \/ /\ priv' = [priv EXCEPT ![p].module = NoModule]
                /\ error' = [error EXCEPT ![p] = g_set_error(@, ErrLoad)]
                /\ ret' = [ret EXCEPT ![p] = -1]
                /\ pc' = [pc EXCEPT ![p] = "returned"]
    /\ UNCHANGED <<cache, tmp, loc>>
    /\ UNCHANGED sharedRest

\* process p resolves main in the module it loaded and calls it; in a
\* module mapped from an unfinished file the symbol may not be found
SharedRun(p) ==
    /\ pc[p] = "loaded"
    /\ \/ /\ ~priv[p].module.complete
          /\ error' = [error EXCEPT ![p] = g_set_error(@, ErrNoMain)]
          /\ ret' = [ret EXCEPT ![p] = -1]
          /\ UNCHANGED <<priv, hist, trace>>
       \/ \E code \in ExitCodes :
          /\ priv' = [priv EXCEPT ![p].exit_code = code]
          /\ ret' = [ret EXCEPT ![p] = code]
          /\ hist' = [hist EXCEPT ![p].mainCalls = @ + 1, ![p].mainArgv = loc[p].argv,
                                  ![p].mainRet = Append(@, code)]
          /\ trace' = Append(trace, DriverEv("main", <<p, priv[p].module.complete>>))
          /\ UNCHANGED error
    /\ pc' = [pc EXCEPT ![p] = "returned"]
    /\ UNCHANGED <<cache, tmp, loc>>
    /\ UNCHANGED sharedRest

NextShared ==
    \E p \in Invocations :
        \/ SharedCheck(p)
        \/ SharedCompileBegin(p)
        \/ SharedCompileEnd(p)
        \/ SharedLoad(p)
        \/ SharedRun(p)

SpecShared == InitShared /\ [][NextShared]_vars

(***************************************************************************)
(* crispy_script_execute called again on the same record                   *)
(***************************************************************************)
\* the most calls of crispy_script_execute one record gets
MaxExecutes == 2

\* the calls of crispy_script_execute after the first
Reexecutions == {k \in 1..Len(trace) : trace[k].ev = "execute"}

\* a caller that holds the record on its own: at most one plugin, no
\* configuration, an empty cache directory
InitAgain ==
    /\ clock = 1
    /\ srcFile = [kind |-> "regular", mtime |-> 1, content |-> SrcParams]
    /\ gcc_version \in Versions
    /\ cli \in {c \in CommandLines :
                    /\ c.writes = {"none"} /\ c.mode = "file"
                    /\ c.plugins \in {-1, 1}
                    /\ ~HasFlag(c.flags, CRISPY_FLAG_GDB)
                    /\ c.extra = Null /\ c.override = Null}
    /\ cache = <<>>
    /\ tmp = <<>>
    /\ InitScript
    /\ invocations = MaxInvocations - 1
    /\ fn = NoCall

\* the caller clears its error and calls crispy_script_execute on the
\* record once more; the record keeps what the earlier call stored in it,
\* and hist goes on counting over all the calls
ExecuteAgain ==
    /\ pc = "returned"
    /\ Cardinality(Reexecutions) + 1 < MaxExecutes
    /\ pc' = "created"
    /\ error' = NoError /\ ret' = NoRet
    /\ loc' = [NoLocals EXCEPT !.argv = ScriptArgv]
    /\ trace' = Append(trace, DriverEv("execute", Cardinality(Reexecutions) + 2))
    /\ UNCHANGED <<clock, srcFile, cache, tmp, gcc_version, cli, hk, i, plugins,
                   priv, ctx, hist, fresh, invocations, fn, config_ctx, engine>>

NextAgain ==
    \/ NextDriver
    \/ ExecuteAgain

SpecAgain == InitAgain /\ [][NextAgain]_vars

(***************************************************************************)
(* crispy-plugin-engine.c: the destruction of an engine that holds plugins *)
(* and stored data                                                         *)
(***************************************************************************)
\* crispy_plugin_engine_finalize as a whole: g_ptr_array_unref of the
\* plugin list, then g_hash_table_unref of the data store, the table
\* iterating in some order
EngineFinalize ==
    /\ pc = "hooks"
    /\ pc' = "done"
    /\ \E order \in [1..Cardinality(DOMAIN engine.data_store) -> DOMAIN engine.data_store] :
          /\ \A a, b \in DOMAIN order : a # b => order[a] # order[b]
          /\ trace' = Append(FreeStore(FreeEntries(trace, plugins, 1),
                                       engine.data_store, order),
                             StoreEv("finalized", "", "NULL", FALSE))
    /\ plugins' = <<>>
    /\ engine' = [engine EXCEPT !.finalized = TRUE, !.data_store = <<>>]
    /\ UNCHANGED <<scriptVars, config_ctx, i, error, ret>>

\* an engine with the command line's plugins loaded: data is stored, then
\* the engine is destroyed
NextTeardown == SetData \/ EngineFinalize

SpecTeardown == InitDispatch /\ [][NextTeardown]_vars

(***************************************************************************)
(* Properties                                                              *)
(***************************************************************************)
\* the hook points fired so far in this invocation, in order
HookSeq == [k \in 1..Len(hist.fired) |-> hist.fired[k].hook]

HasFired(hook_point) == \E k \in 1..Len(hist.fired) : hist.fired[k].hook = hook_point

IsPrefix(s, t) == Len(s) <= Len(t) /\ s = SubSeq(t, 1, Len(s))

MissSequence ==
    <<CRISPY_HOOK_SOURCE_LOADED, CRISPY_HOOK_PARAMS_EXPANDED, CRISPY_HOOK_HASH_COMPUTED,
      CRISPY_HOOK_CACHE_CHECKED, CRISPY_HOOK_PRE_COMPILE, CRISPY_HOOK_POST_COMPILE,
      CRISPY_HOOK_MODULE_LOADED, CRISPY_HOOK_PRE_EXECUTE, CRISPY_HOOK_POST_EXECUTE>>

HitSequence ==
    <<CRISPY_HOOK_SOURCE_LOADED, CRISPY_HOOK_PARAMS_EXPANDED, CRISPY_HOOK_HASH_COMPUTED,
      CRISPY_HOOK_CACHE_CHECKED,
      CRISPY_HOOK_MODULE_LOADED, CRISPY_HOOK_PRE_EXECUTE, CRISPY_HOOK_POST_EXECUTE>>

\* the sequence of the invocation, by how its cache check ended
ExpectedSequence == IF loc.cache_hit THEN HitSequence ELSE MissSequence

\* the invocation returned with no abort and no failing phase, in neither
\* dry-run nor debugger mode
RanToCompletion ==
    /\ pc = "returned"
    /\ hist.abort = NoAbort
    /\ error = NoError
    /\ ~HasFlag(cli.flags, CRISPY_FLAG_DRY_RUN)
    /\ ~HasFlag(cli.flags, CRISPY_FLAG_GDB)

\* a plugin forced the recompile at cache-checked: by its result, or by the
\* context's boolean with the dispatch ending in continue
PluginForced ==
    \/ hist.checkResult = CRISPY_HOOK_FORCE_RECOMPILE
    \/ hist.checkResult = CRISPY_HOOK_CONTINUE /\ hist.checkFlag

\* C1: the hook points fired in an invocation always form a prefix of
\* source-loaded, params-expanded, hash-computed, cache-checked, [pre-compile,
\* post-compile on a miss only], module-loaded, pre-execute, post-execute,
\* and an invocation that runs to completion fires the whole sequence, each
\* hook point once.
C1_HookOrder ==
    /\ IsPrefix(HookSeq, ExpectedSequence)
    /\ RanToCompletion => HookSeq = ExpectedSequence

C1_Witness ==
    /\ RanToCompletion
    /\ HookSeq = MissSequence
    /\ Len(plugins) = NumPlugins
    /\ Len(hist.dispCalls) = NumPlugins

\* C2: once a handler has returned abort at hook point P, no handler of a
\* later-loaded plugin is called at P, no later hook point fires and, if P is
\* before post-execute, main is not called.
C2_AbortStops ==
    hist.abort.at # -1 =>
        /\ pc \in {"after", "returned", "idle"}
        /\ hist.fired[Len(hist.fired)].hook = hist.abort.at
        /\ hist.dispCalls[Len(hist.dispCalls)] = <<hist.abort.by, CRISPY_HOOK_ABORT>>
        /\ hist.abort.at # CRISPY_HOOK_POST_EXECUTE => hist.mainCalls = 0

C2_Witness ==
    /\ pc = "returned"
    /\ hist.abort.at = CRISPY_HOOK_PRE_EXECUTE
    /\ hist.abort.by = 1
    /\ Len(plugins) = NumPlugins
    /\ hist.mainCalls = 0

\* C3: after a handler returned abort, at whichever hook point,
\* crispy_script_execute returns -1 and the error sink holds what it held
\* when the aborting handler returned.
C3_AbortKeepsError ==
    hist.abort.at # -1 =>
        /\ error = hist.abort.err
        /\ pc # "after" => ret = -1

C3_Witness ==
    /\ pc = "returned"
    /\ ret = -1
    /\ hist.abort.at = CRISPY_HOOK_POST_COMPILE
    /\ hist.abort.err = PluginError(hist.abort.by)
    /\ error = PluginError(hist.abort.by)

C6_DryRunNeverRuns ==
    HasFlag(cli.flags, CRISPY_FLAG_DRY_RUN) =>
        /\ hist.compiles = 0
        /\ hist.opens = 0
        /\ hist.mainCalls = 0
        /\ (pc = "returned" /\ hist.abort = NoAbort /\ error = NoError)
              => ret = 0 /\ priv.exit_code = 0

\* a handler returned force-recompile at a hook point other than
\* cache-checked and the dispatch has returned it to the driver
StrayForce ==
    /\ pc = "after"
    /\ loc.hook_result = CRISPY_HOOK_FORCE_RECOMPILE
    /\ hk # CRISPY_HOOK_CACHE_CHECKED

\* C7 as stated: a force-recompile result from a hook point other than
\* cache-checked is treated as abort, the driver returns -1 at once.
C7_ForceElsewhereAborts ==
    [][StrayForce => pc' = "returned" /\ ret' = -1]_vars

\* C7 as amended: a force-recompile result from a hook point other than
\* cache-checked ends that hook point's dispatch at the plugin that returned
\* it, and the driver goes on as after continue: it dispatches the next hook
\* point, or returns because a phase of its own failed, or, after
\* post-execute, returns main's exit code.
C7_ForceElsewhereContinues ==
    [][StrayForce =>
          /\ hist.dispCalls[Len(hist.dispCalls)] = <<i, CRISPY_HOOK_FORCE_RECOMPILE>>
          /\ \/ pc' = "dispatch" /\ hk' > hk
             \/ pc' = "returned" /\ error = NoError /\ error' # NoError /\ ret' = -1
             \/ /\ pc' = "returned" /\ hk = CRISPY_HOOK_POST_EXECUTE
                /\ ret' = priv.exit_code /\ error' = error]_vars

C7_Witness ==
    /\ pc = "returned"
    /\ hk = CRISPY_HOOK_POST_EXECUTE
    /\ loc.hook_result = CRISPY_HOOK_FORCE_RECOMPILE
    /\ hist.mainCalls = 1
    /\ ret = priv.exit_code

\* the invocation goes the way of a miss: no later hook sees cache_hit =
\* TRUE, the temp source is written before pre-compile, the artifact is
\* loaded only after pre-compile, the compiler and post-compile, and an
\* invocation that runs to completion has done all of it
ProceedsAsMiss ==
    /\ ~loc.cache_hit
    /\ \A k \in 1..Len(hist.fired) :
          hist.fired[k].hook >= CRISPY_HOOK_PRE_COMPILE => ~hist.fired[k].cache_hit
    /\ HasFired(CRISPY_HOOK_PRE_COMPILE) => hist.tmpWrites = 1
    /\ hist.opens > 0 =>
          /\ hist.compiles = 1
          /\ HasFired(CRISPY_HOOK_PRE_COMPILE) /\ HasFired(CRISPY_HOOK_POST_COMPILE)
    /\ RanToCompletion =>
          hist.tmpWrites = 1 /\ hist.compiles = 1 /\ HookSeq = MissSequence

\* C8 as stated: when the cache-checked dispatch returned force-recompile, or
\* some cache-checked handler set the context's force_recompile boolean and
\* the dispatch ended with continue, the invocation goes the way of a miss
\* even though the artifact is valid.
C8_SetterForcesMiss ==
    (\/ hist.checkResult = CRISPY_HOOK_FORCE_RECOMPILE
     \/ hist.checkResult = CRISPY_HOOK_CONTINUE /\ hist.forceSet) => ProceedsAsMiss

\* C8 as amended: when the cache-checked dispatch returned force-recompile,
\* or it ended with continue and the context's force_recompile boolean is
\* still set at its end (no later handler cleared it), the invocation goes
\* the way of a miss even though the artifact is valid.
C8_PluginForcesMiss ==
    PluginForced => ProceedsAsMiss

C8_Witness ==
    /\ RanToCompletion
    /\ hist.checkResult = CRISPY_HOOK_CONTINUE /\ hist.checkFlag
    /\ hist.validAtCheck
    /\ hist.fired[4].cache_hit
    /\ hist.compiles = 1
    /\ HookSeq = MissSequence

\* C9: with the force-compile flag set the validity predicate is not
\* called, no hook sees cache_hit = TRUE, and the artifact is loaded only
\* after it has been compiled again, also when a valid artifact exists.
C9_ForceFlagSkipsCache ==
    HasFlag(cli.flags, CRISPY_FLAG_FORCE_COMPILE) =>
        /\ hist.hvCalls = 0
        /\ \A k \in 1..Len(hist.fired) : ~hist.fired[k].cache_hit
        /\ hist.opens > 0 => hist.compiles = 1
        /\ RanToCompletion => HookSeq = MissSequence

C9_Witness ==
    /\ HasFlag(cli.flags, CRISPY_FLAG_FORCE_COMPILE)
    /\ hist.validAtCheck
    /\ RanToCompletion
    /\ hist.compiles = 1

NonEmptyTier(tier) == tier # Null /\ tier # EmptyStr

\* the strings of a sequence joined by single spaces
RECURSIVE JoinWithSpaces(_)
JoinWithSpaces(strs) ==
    IF strs = <<>> THEN EmptyStr
    ELSE IF Len(strs) = 1 THEN strs[1]
    ELSE strs[1] \o <<SP>> \o JoinWithSpaces(Tail(strs))

\* C10: the flag string the compiler is run with on a miss is the non-empty
\* ones among config default flags, expanded parameters, the extra_flags the
\* pre-compile hook left and config override flags, in this order, joined by
\* single spaces; the artifact is compiled with that string.
C10_CompileFlagTiers ==
    [][(pc = "after" /\ hk = CRISPY_HOOK_PRE_COMPILE
           /\ hist'.compiles = hist.compiles + 1) =>
          /\ loc'.compile_flags =
                JoinWithSpaces(SelectSeq(<<priv.config_extra_flags, priv.expanded_params,
                                           ctx.extra_flags, priv.config_override_flags>>,
                                         NonEmptyTier))
          /\ pc' = "dispatch" => cache'[loc.cached_so_path].flags = loc'.compile_flags]_vars

C10_Witness ==
    /\ hist.compiles = 1
    /\ loc.compile_flags = <<"x", SP, "a", SP, "p", SP, "z">>
    /\ HasFired(CRISPY_HOOK_POST_COMPILE)

\* the non-empty ones among the three tiers that enter the fingerprint,
\* joined by single spaces
JoinedHashTiers ==
    JoinWithSpaces(SelectSeq(<<priv.config_extra_flags, priv.expanded_params,
                               priv.config_override_flags>>, NonEmptyTier))

\* C11 as stated: the flag string fed to the fingerprint is the non-empty
\* ones among config default flags, expanded parameters and config override
\* flags joined by single spaces, with no leading or trailing whitespace.
C11_HashFlagsTrimmed ==
    priv.hash # Null =>
        priv.hash = file_cache_compute_hash(priv.source_content, Len(priv.source_content), JoinedHashTiers,
                                            gcc_version)

\* C11 as amended: the flag string fed to the fingerprint is the non-empty
\* tiers joined by single spaces, followed by one more space when the
\* override tier is empty and one of the other two is not; it is not
\* trimmed.
C11_HashFlagsTiers ==
    priv.hash # Null =>
        priv.hash = file_cache_compute_hash(
                        priv.source_content, Len(priv.source_content),
                        JoinedHashTiers
                            \o (IF ~NonEmptyTier(priv.config_override_flags)
                                   /\ JoinedHashTiers # EmptyStr
                                THEN <<SP>> ELSE EmptyStr),
                        gcc_version)

C11_Witness ==
    /\ pc = "returned"
    /\ priv.config_extra_flags = <<"x">>
    /\ priv.config_override_flags = Null
    /\ priv.hash = file_cache_compute_hash(SrcParams, Len(SrcParams), <<"x", SP, "a", SP>>, gcc_version)

\* the text of a tier, an unset tier being an empty one
TierText(tier) == IF tier = Null THEN EmptyStr ELSE tier

\* the tiers in which two invocations differ
DifferingTiers(a, b) ==
    {k \in 1..3 :
        LET ta == <<a.config_extra_flags, a.expanded_params, a.config_override_flags>>
            tb == <<b.config_extra_flags, b.expanded_params, b.config_override_flags>>
        IN TierText(ta[k]) # TierText(tb[k])}

\* C12: two invocations of one source with one compiler version that differ
\* in exactly one of config default flags, expanded parameters and config
\* override flags feed different flag strings to the fingerprint and get
\* different fingerprints and different artifact paths.
C12_TiersEnterFingerprint ==
    (/\ fn.name = "fingerprint" /\ fn.result # <<>>
     /\ Cardinality(DifferingTiers(fn.args[1], fn.args[2])) = 1) =>
        /\ fn.result[1].hash_flags # fn.result[2].hash_flags
        /\ fn.result[1].hash # fn.result[2].hash
        /\ fn.result[1].cached_so_path # fn.result[2].cached_so_path

C12_Witness ==
    /\ fn.name = "fingerprint" /\ fn.result # <<>>
    /\ DifferingTiers(fn.args[1], fn.args[2]) = {3}
    /\ fn.args[1].config_override_flags = Null
    /\ fn.args[2].config_override_flags = <<"y">>
    /\ fn.args[1].config_extra_flags = <<"x">>
    /\ fn.result[1].cached_so_path # fn.result[2].cached_so_path

\* C13: whenever the cache-hit path loads an artifact, the artifact was
\* compiled from the preprocessed source of this invocation (with the
\* replacement a source-loaded handler made) and with the flag string this
\* invocation would pass to the compiler on a miss; with no plugin attached
\* that string is the one of the three config and parameter tiers.
C13_HitLoadsSameBuild ==
    (loc.cache_hit /\ priv.module.open) =>
        /\ priv.module.src = priv.modified_source
        /\ ~priv.plugin_engine => priv.module.flags = CompileFlags(priv, Null)

\* the triple a call of compute_hash is about: the source bytes (up to the
\* first zero byte when no length is given), the flags with a missing
\* string as the empty one, the version
HashTriple(a) ==
    <<SubSeq(a.source_content, 1,
             IF a.source_len < 0 THEN strlen(a.source_content) ELSE a.source_len),
      TierText(a.extra_flags), a.compiler_version>>

\* C14: the digest input is source, zero byte, flags, zero byte, version,
\* and two calls get the same digest input exactly when their (source
\* bytes, flags, version) triples are equal, also with zero bytes inside
\* the source.
C14_ComputeHashInjective ==
    (fn.name = "compute_hash" /\ fn.result # <<>>) =>
        /\ \A k \in 1..2 :
              LET t == HashTriple(fn.args[k])
              IN fn.result[k] = t[1] \o <<NUL>> \o t[2] \o <<NUL>> \o t[3]
        /\ (fn.result[1] = fn.result[2])
              <=> (HashTriple(fn.args[1]) = HashTriple(fn.args[2]))

C14_Witness ==
    /\ fn.name = "compute_hash" /\ fn.result # <<>>
    /\ fn.args[1].source_content = <<"a", NUL>> /\ fn.args[1].source_len = 2
    /\ fn.args[1].extra_flags = Null
    /\ fn.args[2].source_content = <<"a">> /\ fn.args[2].source_len = 1
    /\ fn.args[2].extra_flags = EmptyStr
    /\ fn.args[1].compiler_version = fn.args[2].compiler_version
    /\ fn.result[1] # fn.result[2]

\* C15: main is called only after the pre-execute dispatch, with the
\* argument vector the pre-execute handlers left in the context, and an
\* invocation in which no hook aborts and no phase fails has called it
\* exactly once, returns the value main returned and has that value as the
\* recorded exit code.
C15_MainOnceWithHookArgv ==
    [][/\ hist'.mainCalls # hist.mainCalls =>
             /\ pc = "after" /\ hk = CRISPY_HOOK_PRE_EXECUTE
             /\ hist.mainCalls = 0 /\ hist'.mainCalls = 1
             /\ hist'.mainArgv = ctx.argv
       /\ RanToCompletion' =>
             /\ hist'.mainCalls = 1
             /\ Len(hist'.mainRet) = 1
             /\ ret' = hist'.mainRet[1]
             /\ crispy_script_get_exit_code(priv') = hist'.mainRet[1]]_vars

C15_Witness ==
    /\ RanToCompletion
    /\ hist.mainCalls = 1
    /\ hist.mainArgv = PluginArgv
    /\ hist.mainRet = <<3>>
    /\ ret = 3
    /\ crispy_script_get_exit_code(priv) = 3

\* C16: when a post-execute handler has returned abort, main has run exactly
\* once, crispy_script_execute returns -1 and the recorded exit code is
\* still the value main returned.
C16_PostExecuteAbortKeepsExit ==
    hist.abort.at = CRISPY_HOOK_POST_EXECUTE =>
        /\ hist.mainCalls = 1
        /\ Len(hist.mainRet) = 1
        /\ pc = "returned" =>
              /\ ret = -1
              /\ crispy_script_get_exit_code(priv) = hist.mainRet[1]

C16_Witness ==
    /\ pc = "returned"
    /\ hist.abort.at = CRISPY_HOOK_POST_EXECUTE
    /\ ret = -1
    /\ hist.mainRet = <<3>>
    /\ crispy_script_get_exit_code(priv) = 3

\* the handler calls of the current dispatch all returned continue
AllContinued ==
    \A k \in 1..Len(hist.dispCalls) : hist.dispCalls[k][2] = CRISPY_HOOK_CONTINUE

\* C17: within one dispatch handlers are called in plugin load order, each
\* plugin at most once; only the last call can have returned something
\* other than continue; dispatch returns continue exactly when every called
\* handler returned continue, having gone through the whole plugin list,
\* and otherwise the first result that was not continue.
C17_DispatchInLoadOrder ==
    (pc \in {"dispatch", "after"} /\ priv.plugin_engine) =>
        /\ \A k \in 1..Len(hist.dispCalls) :
              /\ hist.dispCalls[k][1] \in 1..Len(plugins)
              /\ k > 1 => hist.dispCalls[k - 1][1] < hist.dispCalls[k][1]
              /\ k < Len(hist.dispCalls) => hist.dispCalls[k][2] = CRISPY_HOOK_CONTINUE
        /\ pc = "dispatch" => AllContinued
        /\ pc = "after" =>
              /\ (loc.hook_result = CRISPY_HOOK_CONTINUE) <=> AllContinued
              /\ AllContinued => i = Len(plugins) + 1
              /\ ~AllContinued =>
                    loc.hook_result = hist.dispCalls[Len(hist.dispCalls)][2]

C17_Witness ==
    /\ pc = "after"
    /\ Len(plugins) = NumPlugins
    /\ Len(hist.dispCalls) = NumPlugins
    /\ hist.dispCalls[1] = <<1, CRISPY_HOOK_CONTINUE>>
    /\ hist.dispCalls[NumPlugins] = <<NumPlugins, CRISPY_HOOK_FORCE_RECOMPILE>>
    /\ loc.hook_result = CRISPY_HOOK_FORCE_RECOMPILE

\* the loads the engine was asked for so far, in order, with their outcome
IsLoadAttempt(e) == e.ev \in {"loaded", "load_failed"}
LoadAttempts == SelectSeq(trace, IsLoadAttempt)
AttemptPaths == [k \in 1..Len(LoadAttempts) |-> LoadAttempts[k].path]

\* the plugin paths the configuration file declares, in its order
IsPath(p) == p # Null /\ p # EmptyStr
Declared ==
    IF cli.config.exists /\ cli.config.loads /\ cli.config.result
    THEN SelectSeq(cli.config.declares, IsPath)
    ELSE <<>>

\* the plugin entries that came from the configuration: those loaded by
\* the first Len(Declared) loads
ConfigEntries ==
    {LoadAttempts[k].entry : k \in {j \in 1..Len(LoadAttempts) :
         j <= Len(Declared) /\ LoadAttempts[j].ev = "loaded"}}

\* positions a < b of the trace lie in the same dispatch
SameDispatch(a, b) == \A k \in a..b : trace[k].ev # "dispatch"

\* C18: no plugin is loaded before the configuration loader has returned;
\* the first loads are those of the paths the configuration declared, in
\* the declared order, and the plugins of the command line come after them
\* only; within a dispatch no handler of a configuration plugin is called
\* after a handler of a command-line plugin
C18_ConfigPluginsFirst ==
    /\ \A k \in 1..Len(trace) :
          (IsLoadAttempt(trace[k]) /\ cli.config.exists)
              => \E c \in 1..(k - 1) : trace[c].ev \in {"config_loaded", "config_failed"}
    /\ IF pc \in {"hooks", "failed", "done"}
       THEN IsPrefix(Declared, AttemptPaths)
       ELSE IsPrefix(AttemptPaths, Declared)
    /\ \A a, b \in 1..Len(trace) :
          (a < b /\ trace[a].ev = "hook" /\ trace[b].ev = "hook" /\ SameDispatch(a, b))
              => ~(trace[a].entry \notin ConfigEntries /\ trace[b].entry \in ConfigEntries)

\* a dispatch called a handler of a configuration plugin and then one of a
\* command-line plugin, two configuration plugins being loaded
C18_Witness ==
    /\ Cardinality(ConfigEntries) = 2
    /\ \E a, b \in 1..Len(trace) :
          /\ a < b /\ trace[a].ev = "hook" /\ trace[b].ev = "hook" /\ SameDispatch(a, b)
          /\ trace[a].entry \in ConfigEntries /\ trace[b].entry \notin ConfigEntries

\* the pieces of s between the characters ':' and ',', by position: a piece
\* runs from after one separator (or the start) to before the next (or the end)
Separators(s) == {k \in 1..Len(s) : s[k] \in {":", ","}} \cup {0, Len(s) + 1}
NextSeparator(s, a) ==
    CHOOSE b \in Separators(s) : b > a /\ \A c \in Separators(s) : c > a => b <= c
PieceAfter(s, a) == Strip(SubSeq(s, a + 1, NextSeparator(s, a) - 1))

\* the tokens of s that are not empty, in order of position
RECURSIVE TokensFrom(_, _)
TokensFrom(s, a) ==
    IF a > Len(s) THEN <<>>
    ELSE (IF PieceAfter(s, a) = EmptyStr THEN <<>> ELSE <<PieceAfter(s, a)>>)
             \o TokensFrom(s, NextSeparator(s, a))
NonEmptyTokens(s) == IF s = Null THEN <<>> ELSE TokensFrom(s, 0)

\* a path the engine can load: it opens and has the descriptor
Loadable(path) == PluginLibrary(path).opens /\ PluginLibrary(path).info

\* paths up to and including the first that cannot be loaded
UpToFirstFailure(paths) ==
    LET bad == {k \in 1..Len(paths) : ~Loadable(paths[k])}
    IN IF bad = {} THEN paths
       ELSE SubSeq(paths, 1, CHOOSE k \in bad : \A j \in bad : k <= j)

\* the paths of the loads that succeeded so far, in order
IsLoaded(e) == e.ev = "loaded"
LoadedPaths == [k \in 1..Len(SelectSeq(trace, IsLoaded)) |-> SelectSeq(trace, IsLoaded)[k].path]

\* position of the load attempt before position k of the trace (0: none)
PreviousAttempt(k) ==
    LET before == {j \in 1..(k - 1) : IsLoadAttempt(trace[j])}
    IN IF before = {} THEN 0 ELSE CHOOSE j \in before : \A m \in before : j >= m

\* C19: until the engine is destroyed its plugin list is the sequence of
\* the plugins loaded with success, in load order; a load that fails (the
\* module does not open, or has no descriptor) called no initializer and
\* registered nothing, and the error main ends with is of kind plugin; the
\* loads made for --plugins are its non-empty tokens between ':' and ','
\* up to and including the first that fails, and main fails exactly if one
\* of them does, the plugins loaded before staying in the list
C19_PluginListIsLoadedSequence ==
    /\ ~engine.finalized =>
          /\ [k \in 1..Len(plugins) |-> plugins[k].path] = LoadedPaths
          /\ \A k \in 1..Len(LoadAttempts) :
                LoadAttempts[k].ev = "loaded" <=> Loadable(LoadAttempts[k].path)
    /\ \A k \in 1..Len(trace) :
          trace[k].ev = "load_failed" =>
              \A j \in (PreviousAttempt(k) + 1)..k : trace[j].ev # "crispy_plugin_init"
    /\ pc \in {"hooks", "failed", "done"} =>
          /\ SubSeq(AttemptPaths, Len(Declared) + 1, Len(AttemptPaths))
                = UpToFirstFailure(NonEmptyTokens(cli.opt_plugins))
          /\ (ret = 1) <=> \E k \in 1..Len(NonEmptyTokens(cli.opt_plugins)) :
                                ~Loadable(NonEmptyTokens(cli.opt_plugins)[k])
          /\ (ret = 1) => error = ErrPlugin
          /\ (ret # 1) => error = NoError
    /\ pc = "failed" => (ret = 1 /\ ~engine.finalized)

\* --plugins had a token that loaded, then one that failed, then one more:
\* main has returned 1 and the list holds the plugin loaded first
C19_Witness ==
    /\ pc = "failed"
    /\ Len(NonEmptyTokens(cli.opt_plugins)) = 3
    /\ Len(plugins) >= 1
    /\ plugins[Len(plugins)].path = NonEmptyTokens(cli.opt_plugins)[1]
    /\ LoadAttempts[Len(LoadAttempts)].ev = "load_failed"

\* the events of plugin entry n, in order
EntryEvents(n) == SelectSeq(trace, LAMBDA e : e.entry = n)

\* number of plugin entries made so far
EntriesMade == Len(SelectSeq(trace, IsLoaded))

\* where an event stands in the life of a plugin entry
Stage(ev) ==
    CASE ev = "g_module_open" -> 1
      [] ev = "crispy_plugin_init" -> 2
      [] ev = "loaded" -> 3
      [] ev \in {"hook", "stored"} -> 4
      [] ev = "crispy_plugin_shutdown" -> 5
      [] ev = "g_module_close" -> 6

\* how many events ev the sequence es has
CountOf(es, ev) == Cardinality({k \in 1..Len(es) : es[k].ev = ev})

\* the private data entry es has before its event at position k: what was
\* stored last, the initializer's result or a handler's write-back
DataBefore(es, k) ==
    LET writes == {j \in 1..(k - 1) : es[j].ev \in {"crispy_plugin_init", "stored"}}
    IN IF writes = {} THEN "NULL"
       ELSE es[CHOOSE j \in writes : \A m \in writes : j >= m].data

\* what C20 asks of plugin entry n
CheckEntry(n) ==
    LET es == EntryEvents(n)
        lib == PluginLibrary(es[1].path)
    IN /\ \A a, b \in 1..Len(es) : a < b => Stage(es[a].ev) <= Stage(es[b].ev)
       /\ CountOf(es, "g_module_open") = 1
       /\ CountOf(es, "crispy_plugin_init") = (IF lib.init THEN 1 ELSE 0)
       /\ CountOf(es, "loaded") = 1
       /\ CountOf(es, "crispy_plugin_shutdown")
             = (IF lib.shutdown /\ engine.finalized THEN 1 ELSE 0)
       /\ CountOf(es, "g_module_close") = (IF engine.finalized THEN 1 ELSE 0)
       /\ \A k \in 1..Len(es) :
             /\ es[k].ev \in {"hook", "crispy_plugin_shutdown", "loaded"}
                   => es[k].data = DataBefore(es, k)
             /\ es[k].ev = "hook" => (k < Len(es) /\ es[k + 1].ev = "stored")

SetsBefore(k, key) == {j \in 1..(k - 1) : trace[j].ev = "set" /\ trace[j].key = key}

\* every get returned the data of the latest set of its key, NULL if none
GetReturnsLastSet ==
    \A k \in 1..Len(trace) :
        trace[k].ev = "get" =>
            trace[k].data = (IF SetsBefore(k, trace[k].key) = {} THEN "NULL"
                             ELSE trace[CHOOSE j \in SetsBefore(k, trace[k].key) :
                                     \A m \in SetsBefore(k, trace[k].key) : j >= m].data)

\* the values stored non-NULL with a destroy notify, and how often each
\* value was destroyed
OwnedValues ==
    {trace[k].data : k \in {j \in 1..Len(trace) :
        trace[j].ev = "set" /\ trace[j].destroy /\ trace[j].data # "NULL"}}
Destroys(p) ==
    Cardinality({k \in 1..Len(trace) : trace[k].ev = "destroy" /\ trace[k].data = p})

\* p is what get returns for some key
Current(p) == \E key \in DOMAIN engine.data_store : engine.data_store[key].data = p

\* every owned value is destroyed at most once, exactly once when the
\* engine is gone, and not while get still returns it
ValuesDestroyedOnce ==
    \A p \in OwnedValues :
        /\ Destroys(p) <= 1
        /\ engine.finalized => Destroys(p) = 1
        /\ Current(p) => Destroys(p) = 0

\* C21 as stated: get returns the value set last for the key, NULL if there
\* is none; every value stored non-NULL with a destroy notify is destroyed
\* exactly once over the life of the engine, and never while get returns it
C21_EachValueDestroyedOnce == GetReturnsLastSet /\ ValuesDestroyedOnce

\* the sets of key that handed over a value to destroy, in order
IsOwningSet(e) == e.ev = "set" /\ e.destroy /\ e.data # "NULL"
SetsOf(key) == SelectSeq(trace, LAMBDA e : e.ev = "set" /\ e.key = key)
DestroysOf(key) == SelectSeq(trace, LAMBDA e : e.ev = "destroy" /\ e.key = key)

\* the entries of key that are gone: all but the last set, all when the
\* engine is destroyed
GoneEntries(key) ==
    IF engine.finalized \/ SetsOf(key) = <<>> THEN SetsOf(key)
    ELSE SubSeq(SetsOf(key), 1, Len(SetsOf(key)) - 1)

\* no value was handed to the store by two calls
NoValueStoredTwice ==
    \A a, b \in 1..Len(trace) :
        (a # b /\ trace[a].ev = "set" /\ trace[b].ev = "set" /\ trace[a].data # "NULL")
            => trace[a].data # trace[b].data

\* C21, amended: get returns the value set last for the key, NULL if there
\* is none; the destroy notify of an entry is called once when its key is
\* set again, or once when the engine is destroyed, and not before; if no
\* value was stored by two calls, every owned value is destroyed exactly
\* once and never while get returns it
C21_EachEntryDestroyedOnce ==
    /\ GetReturnsLastSet
    /\ \A key \in {"k1", "k2"} :
          [k \in 1..Len(DestroysOf(key)) |-> DestroysOf(key)[k].data]
             = [k \in 1..Len(SelectSeq(GoneEntries(key), IsOwningSet)) |->
                    SelectSeq(GoneEntries(key), IsOwningSet)[k].data]
    /\ NoValueStoredTwice => ValuesDestroyedOnce

\* a key was set to an owned value, read, set to another owned value, and
\* the engine destroyed: both values are destroyed
C21_Witness ==
    /\ engine.finalized
    /\ NoValueStoredTwice
    /\ \E key \in {"k1", "k2"} : Len(DestroysOf(key)) = 2
    /\ \E k \in 1..Len(trace) : trace[k].ev = "get" /\ trace[k].data # "NULL"

\* the setters crispy_config_init has called so far
CalledSetters == {trace[k].ev : k \in 1..Len(trace)} \cap {c[1] : c \in SetterCalls}

\* the configuration load has failed
LoadFailed == fn.name = "compile_and_load" /\ fn.result = <<FALSE>>

Happened(ev, arg) == {k \in 1..Len(trace) : trace[k] = CfgEv(ev, arg)}

\* crispy_config_loader_compile_and_load has returned
LoaderReturned == fn.name = "compile_and_load" /\ fn.result # <<>>

\* C23: crispy_config_loader_compile_and_load returns TRUE exactly if
\* crispy_config_init was called and returned TRUE; it calls it at most
\* once, and only after the artifact was found valid or compiled with
\* success and the module was opened; the compiler is run exactly if the
\* cache check found no valid artifact; with crispy_config_init missing or
\* returning FALSE the result is FALSE and the error of kind config
C23_LoaderResult ==
    /\ Cardinality(Happened("crispy_config_init", TRUE)) <= 1
    /\ \A k \in Happened("crispy_config_init", TRUE) :
          /\ \E j \in 1..(k - 1) : trace[j] \in {CfgEv("has_valid", TRUE), CfgEv("compile", TRUE)}
          /\ \E j \in 1..(k - 1) : trace[j] = CfgEv("g_module_open", TRUE)
    /\ (Happened("compile", TRUE) \cup Happened("compile", FALSE) # {})
          <=> Happened("has_valid", FALSE) # {}
    /\ LoaderReturned =>
          /\ fn.result = <<TRUE>> <=>
                (Happened("crispy_config_init", TRUE) # {} /\ Happened("return", TRUE) # {})
          /\ (pc = "returned" /\ Happened("g_module_open", TRUE) # {}
                /\ (Happened("crispy_config_init", TRUE) = {} \/ Happened("return", FALSE) # {}))
                => (fn.result = <<FALSE>> /\ error = ErrConfig)

\* the artifact was not valid, the compiler ran, crispy_config_init called
\* a setter and returned FALSE
C23_Witness ==
    /\ pc = "returned"
    /\ Happened("compile", TRUE) # {}
    /\ Happened("return", FALSE) # {}
    /\ CalledSetters # {}

\* the flag-writing calls made on the context so far, in order
IsFlagCall(e) == e.ev \in {"set_flags", "add_flags"}
FlagCalls == SelectSeq(trace, IsFlagCall)

\* the bits of a flag value, and the bits left by the first k flag calls
\* starting from no bit: a set replaces them, an add joins its own
BitsOf(n) == {b \in 0..3 : (n \div (2 ^ b)) % 2 = 1}
RECURSIVE BitsAfter(_, _)
BitsAfter(calls, k) ==
    IF k = 0 THEN {}
    ELSE IF calls[k].ev = "set_flags" THEN BitsOf(calls[k].arg)
    ELSE BitsAfter(calls, k - 1) \cup BitsOf(calls[k].arg)

\* C24: on an initialized context flags_set is TRUE exactly if set_flags or
\* add_flags was called, and the flag value is what the calls give when
\* applied in order from 0, set replacing and add or-ing; after set_flags(0)
\* alone the value is 0 as without any call, and flags_set tells them apart
C24_FlagsRecordCalls ==
    (cli.config /\ pc # "config") =>
        /\ config_ctx.flags_set <=> FlagCalls # <<>>
        /\ BitsOf(config_ctx.flags) = BitsAfter(FlagCalls, Len(FlagCalls))
        /\ config_ctx.flags \in 0..15

\* set_flags(0) was the only flag call: the value is 0 and flags_set TRUE
C24_Witness ==
    /\ cli.config /\ pc = "entry"
    /\ FlagCalls = <<CfgEv("set_flags", 0)>>
    /\ config_ctx.flags = 0 /\ config_ctx.flags_set

\* positions of the set_script_argv calls before position k
ArgvSetsBefore(k) == {j \in 1..(k - 1) : trace[j].ev = "set_script_argv"}

\* the vector the context holds before position k, and whether it owns it
ArgvBefore(k) ==
    IF ArgvSetsBefore(k) = {} THEN "argv"
    ELSE trace[CHOOSE j \in ArgvSetsBefore(k) : \A m \in ArgvSetsBefore(k) : j >= m].arg
OwnedBefore(k) == ArgvSetsBefore(k) # {} /\ ArgvBefore(k) # "NULL"

\* position k is a call that replaces the vector or tears the context down
ReplacesOrTearsDown(k) ==
    \/ trace[k].ev \in {"set_script_argv", "warning"}
    \/ trace[k].ev = "execute" /\ Happened("return", TRUE) # {}

\* every set_script_argv and every teardown releases the vector the
\* context holds exactly if the context owns it, and nothing else releases
ReleasesFollowOwnership ==
    \A k \in 1..Len(trace) :
        /\ ReplacesOrTearsDown(k) =>
              IF OwnedBefore(k)
              THEN k < Len(trace) /\ trace[k + 1] = CfgEv("g_strfreev", ArgvBefore(k))
              ELSE k = Len(trace) \/ trace[k + 1].ev # "g_strfreev"
        /\ trace[k].ev = "g_strfreev" => (k > 1 /\ ReplacesOrTearsDown(k - 1))

\* the vector main handed in is not released; no vector is released twice,
\* none is used by main or handed to the context after its release
ReleasedOnceAndNotUsedAfter ==
    /\ Happened("g_strfreev", "argv") = {}
    /\ \A a, b \in 1..Len(trace) :
          (a < b /\ trace[a].ev = "g_strfreev"
             /\ trace[b].ev \in {"g_strfreev", "execute", "set_script_argv"})
              => trace[b].arg # trace[a].arg

\* C25 as stated: each set_script_argv releases the prior vector exactly if
\* the context owned it, teardown releases the current vector exactly if it
\* is owned, the vector main supplied is never released, no vector is
\* released twice or used after its release
C25_ArgvReleasedOnce == ReleasesFollowOwnership /\ ReleasedOnceAndNotUsedAfter

\* no set_script_argv call handed over the vector main supplied or a
\* vector handed over before
FreshVectors ==
    \A k \in 1..Len(trace) :
        (trace[k].ev = "set_script_argv" /\ trace[k].arg # "NULL") =>
            /\ trace[k].arg # "argv"
            /\ \A j \in ArgvSetsBefore(k) : trace[j].arg # trace[k].arg

\* C25, amended: each set_script_argv releases the prior vector exactly if
\* the context owned it and teardown releases the current vector exactly if
\* it is owned; if every call hands over a vector that is neither the one
\* main supplied nor one handed over before, the vector main supplied is
\* never released and no vector is released twice or used after its release
C25_ArgvReleasedByOwner ==
    /\ ReleasesFollowOwnership
    /\ FreshVectors => ReleasedOnceAndNotUsedAfter

\* the configuration replaced the vector twice and loaded: the first
\* replacement was released by the second call, the second by the teardown
\* after the script ran with it
C25_Witness ==
    /\ pc = "done" /\ FreshVectors
    /\ Cardinality(ArgvSetsBefore(Len(trace))) = 2
    /\ Cardinality({k \in 1..Len(trace) : trace[k].ev = "g_strfreev"}) = 2
    /\ trace[Len(trace)].ev = "g_strfreev"
    /\ \E k \in 1..Len(trace) : trace[k].ev = "execute" /\ trace[k].arg = trace[Len(trace)].arg

(***************************************************************************)
(* C26: header stripping                                                   *)
(***************************************************************************)
\* the lines of a text, each with its terminator when it has one
RECURSIVE TerminatedLines(_)
TerminatedLines(s) ==
    IF s = EmptyStr THEN <<>>
    ELSE LET n == IndexOf(s, NL, 1)
         IN IF n = 0 THEN <<s>>
            ELSE <<SubSeq(s, 1, n)>> \o TerminatedLines(From(s, n + 1))

WithoutTerminator(l) ==
    IF l # EmptyStr /\ l[Len(l)] = NL THEN SubSeq(l, 1, Len(l) - 1) ELSE l

\* the text without a shebang first line and without the first line that is
\* the parameter macro, every other line as it stands
RECURSIVE KeepLines(_, _, _)
KeepLines(ls, k, found) ==
    IF k > Len(ls) THEN EmptyStr
    ELSE IF k = 1 /\ HasPrefix(ls[k], SHEBANG_KW) THEN KeepLines(ls, k + 1, found)
    ELSE IF ~found /\ IsParamsLine(WithoutTerminator(ls[k]))
         THEN KeepLines(ls, k + 1, TRUE)
    ELSE ls[k] \o KeepLines(ls, k + 1, found)

SourceDone == fn.name = "source" /\ fn.result # <<>>

\* C26: crispy_source_strip_header returns the source without its shebang
\* line and without the first parameter macro line; every other line is
\* returned byte for byte with its own terminator, so no newline is added,
\* removed or duplicated
C26_StripKeepsLinesVerbatim ==
    SourceDone =>
        fn.result[2] = KeepLines(TerminatedLines(fn.args[1]), 1, FALSE)

(***************************************************************************)
(* C27: parameter extraction                                               *)
(***************************************************************************)
\* the text between the first and the last quote of one line
QuotedOn(line) ==
    LET start == IndexOf(line, QUOTE, 1)
        end == IF start = 0 THEN 0 ELSE LastIndexOf(line, QUOTE, start + 1)
    IN IF start # 0 /\ end > start + 1 THEN SubSeq(line, start + 1, end - 1)
       ELSE Null

\* the literal of the first line that is the parameter macro and has one
RECURSIVE ParamsOfLines(_, _)
ParamsOfLines(ls, k) ==
    IF k > Len(ls) THEN Null
    ELSE IF IsParamsLine(ls[k]) /\ QuotedOn(ls[k]) # Null THEN QuotedOn(ls[k])
    ELSE ParamsOfLines(ls, k + 1)

\* C27: crispy_source_extract_params returns the contents of the quoted
\* literal on the first parameter macro line, taken from that line alone
\* whatever the other lines hold, and absent when no line is the macro
C27_ParamsFromTheMacroLine ==
    SourceDone => fn.result[1] = ParamsOfLines(SplitLines(fn.args[1]), 1)

(***************************************************************************)
(* C28: extraction after stripping                                         *)
(***************************************************************************)
\* C28: whenever crispy_source_extract_params finds parameters in a source,
\* it finds none in the source crispy_source_strip_header returns for it
C28_StrippedSourceHasNoParams ==
    SourceDone /\ fn.result[1] # Null => fn.result[3] = Null

(***************************************************************************)
(* C29: the temp source and the module at the end of the run               *)
(***************************************************************************)
DriverEvents(ev) == {k \in DOMAIN trace : trace[k].ev = ev}

\* C29: a temp source file exists only after a cache check that ended as a
\* miss; once the driver has released the script record, the file at the
\* path crispy_script_get_temp_source_path reported exists exactly when the
\* preserve-source flag is set, no other temp file exists, and the module
\* the record had loaded has been closed once
C29_TempSourceAndModuleReleased ==
    /\ DOMAIN tmp \subseteq {crispy_script_get_temp_source_path(priv)}
    /\ crispy_script_get_temp_source_path(priv) # 0 =>
          HasFired(CRISPY_HOOK_CACHE_CHECKED) /\ ~loc.cache_hit
    /\ pc = "done" =>
          /\ crispy_script_get_temp_source_path(priv) # 0 =>
                (crispy_script_get_temp_source_path(priv) \in DOMAIN tmp
                    <=> HasFlag(cli.flags, CRISPY_FLAG_PRESERVE_SOURCE))
          /\ Cardinality(DriverEvents("g_module_close")) =
                (IF priv.module.open THEN 1 ELSE 0)

\* a run with the preserve-source flag that missed, loaded the module and
\* ended: the file is still there and the module is closed
C29_Witness ==
    /\ pc = "done"
    /\ HasFlag(cli.flags, CRISPY_FLAG_PRESERVE_SOURCE)
    /\ crispy_script_get_temp_source_path(priv) \in DOMAIN tmp
    /\ priv.module.open
    /\ DriverEvents("g_module_close") # {}

(***************************************************************************)
(* C30: the driver's exit status                                           *)
(***************************************************************************)
\* the run ended fatally: no script record, a phase that failed, a hook
\* that aborted
FatalOutcome == priv = NoScript \/ hist.abort # NoAbort \/ error # NoError

\* the exit status of a process whose main returned code
ExitStatus(code) == code % 256

DriverStatus == ExitStatus(trace[Len(trace)].arg)

ErrorLines ==
    {k \in DriverEvents("g_printerr") : trace[k].arg = "Error:"}

\* C30: when the run ends fatally (script creation failed, a phase failed
\* or a hook aborted) the driver exits with status 1 after exactly one
\* line beginning with Error:; otherwise its status is the value the
\* script's main returned (0 when a dry run called no main) and no such
\* line is written
C30_FatalExitsOneWithErrorLine ==
    pc = "done" =>
        IF FatalOutcome
        THEN DriverStatus = 1 /\ Cardinality(ErrorLines) = 1
        ELSE /\ ErrorLines = {}
             /\ DriverStatus = (IF hist.mainCalls = 0 THEN 0
                                ELSE ExitStatus(hist.mainRet[Len(hist.mainRet)]))

(***************************************************************************)
(* C31: purge                                                              *)
(***************************************************************************)
PurgeDone == fn.name = "purge" /\ fn.result # <<>>

\* what C31 says of the directory after a purge, when the purge is one
\* that counts
PurgeOutcome(counts) ==
    PurgeDone /\ counts =>
        LET dir == fn.args[1]
            compiled == {file_cache_get_path(h) : h \in fn.result[3]}
        IN IF fn.result[1]
           THEN /\ \A name \in DOMAIN dir \ compiled :
                      IF HasSuffix(name, SO_SUFFIX) /\ dir[name].file.kind = "regular"
                      THEN name \notin DOMAIN cache
                      ELSE name \in DOMAIN cache /\ cache[name] = dir[name]
                /\ DOMAIN cache \subseteq DOMAIN dir \cup compiled
                /\ \A h \in PurgeHashes \ fn.result[3] :
                      ~file_cache_has_valid(Lookup(cache, file_cache_get_path(h)),
                                            ScriptPath, RegularFile(0))
                /\ error = NoError
           ELSE /\ \A name \in DOMAIN dir :
                      name \in DOMAIN cache /\ cache[name] = dir[name]
                /\ DOMAIN cache \subseteq DOMAIN dir \cup compiled
                /\ error # NoError

C31_PurgeOfReadOnlyDirectory ==
    PurgeDone /\ fn.result[1] /\ ~fn.result[4] =>
        /\ fn.result[2] = 0
        /\ \A name \in DOMAIN fn.args[1] :
              name \in DOMAIN cache /\ cache[name] = fn.args[1][name]

SavedState(n, k) ==
    LET writes == {j \in 1..(k - 1) :
                      /\ trace[j].entry = n
                      /\ trace[j].ev \in {"crispy_plugin_init", "stored"}}
    IN IF writes = {} THEN "NULL"
       ELSE trace[CHOOSE j \in writes : \A m \in writes : j >= m].data

C33_HandlersSeeHookPointAndEngine ==
    \A k \in 1..Len(trace) :
        trace[k].ev = "hook" =>
            trace[k].ctx_hook_point = trace[k].hook /\ trace[k].ctx_engine

(***************************************************************************)
(* C34: where the driver reads the mutable context fields back            *)
(***************************************************************************)
\* crispy_script_execute is running
Executing == pc \in {"dispatch", "after"}

\* the dispatch of hook point h has returned without abort
Back(h) == pc = "after" /\ hk = h /\ ~Aborted

\* the step enters the dispatch of a hook point
EntersDispatch == pc # "dispatch" /\ pc' = "dispatch"

\* what C34 asks of one step of the driver
ReadBackStep ==
    /\ EntersDispatch =>
          /\ ctx'.modified_source = priv'.modified_source
          /\ ~ctx'.modified_replaced
          /\ ctx'.extra_flags = Null
          /\ ctx'.argv = loc'.argv
          /\ ~ctx'.force_recompile
    /\ Executing /\ priv'.modified_source # priv.modified_source =>
          Back(CRISPY_HOOK_SOURCE_LOADED) /\ ctx.modified_replaced
    /\ Back(CRISPY_HOOK_SOURCE_LOADED) /\ ctx.modified_replaced =>
          priv'.modified_source = ctx.modified_source
    /\ Executing /\ loc'.compile_flags # loc.compile_flags =>
          Back(CRISPY_HOOK_PRE_COMPILE)
    /\ Back(CRISPY_HOOK_PRE_COMPILE) =>
          loc'.compile_flags = CompileFlags(priv, ctx.extra_flags)
    /\ Executing /\ loc'.argv # loc.argv => Back(CRISPY_HOOK_PRE_EXECUTE)
    /\ Back(CRISPY_HOOK_PRE_EXECUTE) =>
          loc'.argv = ctx.argv /\ hist'.mainArgv = ctx.argv
    /\ Executing /\ loc.cache_hit /\ ~loc'.cache_hit =>
          Back(CRISPY_HOOK_CACHE_CHECKED)
    /\ Back(CRISPY_HOOK_CACHE_CHECKED) /\ ctx.force_recompile => ~loc'.cache_hit
    /\ tmp' # tmp /\ pc' # "returned" /\ Executing =>
          \E id \in DOMAIN tmp' : tmp'[id] = priv'.modified_source

\* C34: the driver takes a handler's write to a mutable context field over
\* only in the step after that field's hook point (the replaced source
\* after source-loaded, extra_flags after pre-compile, the argument vector
\* after pre-execute, force_recompile after cache-checked), and every
\* dispatch starts with the mutable fields set afresh from the driver's own
\* state, so a write at any other hook point is gone at the next one
C34_MutableFieldsReadAtTheirHook == [][ReadBackStep]_vars

\* the dispatch of cache-checked has returned on a hit, a handler has
\* written extra_flags there: a write the driver drops in its next step
C34_Witness ==
    /\ pc = "after" /\ hk = CRISPY_HOOK_CACHE_CHECKED
    /\ loc.hook_result = CRISPY_HOOK_CONTINUE
    /\ ctx.extra_flags \notin {Null, EmptyStr}
    /\ loc.cache_hit

(***************************************************************************)
(* C35: a failing phase of crispy_script_execute                           *)
(***************************************************************************)
\* crispy_script_execute has returned -1 and no handler aborted: a phase
\* of the pipeline failed
PhaseFailed == pc = "returned" /\ ret = -1 /\ hist.abort = NoAbort

\* the hook point dispatched last before the return
LastFired == hist.fired[Len(hist.fired)].hook

\* the error kinds the claim gives the phase that follows hook point h
ClaimedKinds(h) ==
    CASE h = CRISPY_HOOK_SOURCE_LOADED -> {"io"}
      [] h = CRISPY_HOOK_CACHE_CHECKED ->
            IF loc.cache_hit THEN {"load"}
            ELSE IF HasFlag(priv.flags, CRISPY_FLAG_GDB) /\ hist.tmpWrites > 0
            THEN {"compile", "io"}
            ELSE {"io"}
      [] h = CRISPY_HOOK_PRE_COMPILE -> {"compile"}
      [] h = CRISPY_HOOK_POST_COMPILE -> {"load"}
      [] h = CRISPY_HOOK_MODULE_LOADED -> {"no-main"}
      [] OTHER -> {}

\* C35: when shell expansion, temp-source writing, compilation, module
\* loading or the resolution of main fails, crispy_script_execute returns
\* -1 with the error of the matching kind (i/o for expansion and temp
\* source, compile, load, no-main), main is not called and no hook point
\* after the failing phase has fired: a compile failure leaves pre-compile
\* fired and post-compile not, a missing main leaves pre-execute and
\* post-execute unfired
C35_FailingPhaseReportsItsKind ==
    PhaseFailed =>
        /\ Len(hist.fired) > 0
        /\ error # NoError
        /\ error[1] \in ClaimedKinds(LastFired)
        /\ hist.mainCalls = 0
        /\ ~HasFired(CRISPY_HOOK_PRE_EXECUTE)
        /\ ~HasFired(CRISPY_HOOK_POST_EXECUTE)
        /\ (error[1] = "compile" /\ ~HasFlag(priv.flags, CRISPY_FLAG_GDB)
               => HasFired(CRISPY_HOOK_PRE_COMPILE) /\ ~HasFired(CRISPY_HOOK_POST_COMPILE))
        /\ (error[1] = "load" => ~HasFired(CRISPY_HOOK_MODULE_LOADED))

\* what holds of the code: the same with the expansion and the compiler
\* subprocess reporting the error GLib's spawn call set
C35_FailingPhaseReportsAnError ==
    PhaseFailed =>
        /\ Len(hist.fired) > 0
        /\ error # NoError
        /\ error[1] \in ClaimedKinds(LastFired)
                          \cup (IF \/ LastFired \in {CRISPY_HOOK_SOURCE_LOADED, CRISPY_HOOK_PRE_COMPILE}
                                   \/ "compile" \in ClaimedKinds(LastFired)
                                THEN {"spawn"} ELSE {})
        /\ hist.mainCalls = 0
        /\ ~HasFired(CRISPY_HOOK_PRE_EXECUTE)
        /\ ~HasFired(CRISPY_HOOK_POST_EXECUTE)
        /\ (LastFired = CRISPY_HOOK_PRE_COMPILE => ~HasFired(CRISPY_HOOK_POST_COMPILE))
        /\ (error[1] = "load" => ~HasFired(CRISPY_HOOK_MODULE_LOADED))

\* the shell expansion of the script's parameters failed
C35_ExpansionFailed ==
    PhaseFailed /\ LastFired = CRISPY_HOOK_SOURCE_LOADED /\ error = ErrSpawn

(***************************************************************************)
(* C36: the debugger flag                                                  *)
(***************************************************************************)
\* an invocation with the debugger flag and without the dry-run flag in
\* which no handler aborted
DebuggerRun ==
    /\ HasFlag(priv.flags, CRISPY_FLAG_GDB)
    /\ ~HasFlag(priv.flags, CRISPY_FLAG_DRY_RUN)
    /\ hist.abort = NoAbort

\* C36: with the debugger flag set crispy_script_execute never calls the
\* script's main in-process and never fires pre-execute or post-execute,
\* whether the cache check was a hit or a miss: the invocation ends in the
\* debugger replacing the process or returns -1 with an error
C36_DebuggerNeverRunsMainInProcess ==
    DebuggerRun =>
        /\ hist.mainCalls = 0
        /\ ~HasFired(CRISPY_HOOK_PRE_EXECUTE)
        /\ ~HasFired(CRISPY_HOOK_POST_EXECUTE)
        /\ (pc = "returned" => ret = -1 /\ error # NoError)

\* the same for the invocations whose cache check ended as a miss: this
\* holds of the code
C36_DebuggerOnAMiss ==
    DebuggerRun /\ HasFired(CRISPY_HOOK_CACHE_CHECKED) /\ pc # "after"
                /\ pc # "dispatch" /\ ~loc.cache_hit =>
        /\ hist.mainCalls = 0
        /\ ~HasFired(CRISPY_HOOK_PRE_EXECUTE)
        /\ ~HasFired(CRISPY_HOOK_POST_EXECUTE)
        /\ (pc = "returned" => ret = -1 /\ error # NoError)

\* main was called in-process under the debugger flag, after a cache hit
C36_MainRanUnderDebuggerFlag ==
    DebuggerRun /\ loc.cache_hit /\ hist.mainCalls = 1 /\ pc = "returned" /\ ret \in ExitCodes

(***************************************************************************)
(* C37: an interrupt while the temp source exists                          *)
(***************************************************************************)
\* the signal events of the run that arrived with a temp source written
InterruptsAfterWrite ==
    {k \in 1..Len(trace) : trace[k].ev = "signal" /\ trace[k].arg # 0}

\* an interrupt has arrived after the pipeline wrote its temp source and
\* before it returned
InterruptedAfterWrite == InterruptsAfterWrite # {}

\* the process has exited from on_signal and the temp source that existed
\* at the interrupt is gone
CleanedUpAndExited ==
    /\ pc = "done"
    /\ \E k \in 1..Len(trace) : trace[k] = DriverEv("exit", 130)
    /\ \A k \in InterruptsAfterWrite : trace[k].arg \notin DOMAIN tmp

\* C37: an interrupt that arrives after the pipeline has written the temp
\* source and before it returns leads to the cleanup removing that file and
\* the process exiting
C37_InterruptRemovesTempSource == InterruptedAfterWrite ~> CleanedUpAndExited

\* the process is over after such an interrupt: either on_signal never ran,
\* or it ran and the temp source is still there
C37_InterruptWithoutCleanup ==
    /\ pc = "done" /\ InterruptedAfterWrite
    /\ ~CleanedUpAndExited

\* on_signal ran and left the temp source in place
C37_OnSignalRemovedNothing ==
    /\ pc = "done" /\ InterruptedAfterWrite
    /\ \E k \in 1..Len(trace) : trace[k] = DriverEv("exit", 130)
    /\ \E k \in InterruptsAfterWrite : trace[k].arg \in DOMAIN tmp

(***************************************************************************)
(* C38: two invocations that compute the same fingerprint                  *)
(***************************************************************************)
\* process p's validity check or load found at the path a file its writer
\* had not finished
ObservedPartial(p) ==
    \E k \in 1..Len(trace) :
        /\ trace[k].ev \in {"has_valid", "g_module_open"}
        /\ trace[k].arg = <<p, FALSE>>

\* C38: in every interleaving of two invocations that share the cache
\* directory and compute the same fingerprint, main is called only from a
\* completely written artifact; an invocation whose validity check or load
\* saw the artifact while the other was writing it ends with a load error
\* and does not run main; when both have finished the artifact at the path
\* is a complete one
C38_MainOnlyFromCompleteArtifact ==
    /\ \A k \in 1..Len(trace) : trace[k].ev = "main" => trace[k].arg[2]
    /\ \A p \in Invocations :
          pc[p] = "returned" /\ ObservedPartial(p) =>
              error[p] = ErrLoad /\ hist[p].mainCalls = 0
    /\ ((\A p \in Invocations : pc[p] = "returned") /\ DOMAIN cache # {}
           => \A path \in DOMAIN cache : Complete(cache, path))

\* the part about the directory, which holds: when both have finished, the
\* file at the path is one its writer completed
C38_LastWriterWins ==
    (\A p \in Invocations : pc[p] = "returned") /\ DOMAIN cache # {}
        => \A path \in DOMAIN cache : Complete(cache, path)

\* a process found the unfinished file valid, loaded it and ran main
C38_MainFromUnfinishedArtifact ==
    \E p \in Invocations :
        /\ pc[p] = "returned" /\ hist[p].mainCalls = 1
        /\ \E k \in 1..Len(trace) : trace[k] = DriverEv("has_valid", <<p, FALSE>>)
        /\ \E k \in 1..Len(trace) : trace[k] = DriverEv("main", <<p, FALSE>>)

\* a process found the unfinished file valid, the writer finished, and the
\* process loaded the finished file and ran main
C38_MainAfterPartialCheck ==
    \E p \in Invocations :
        /\ pc[p] = "returned" /\ hist[p].mainCalls = 1
        /\ \E k \in 1..Len(trace) : trace[k] = DriverEv("has_valid", <<p, FALSE>>)
        /\ \E k \in 1..Len(trace) : trace[k] = DriverEv("main", <<p, TRUE>>)

(***************************************************************************)
(* C39: what a record that was executed several times leaves behind        *)
(***************************************************************************)
\* the modules the record's calls opened: each successful g_module_open is
\* followed by the dispatch of module-loaded
ModulesOpened ==
    Cardinality({k \in 1..Len(hist.fired) : hist.fired[k].hook = CRISPY_HOOK_MODULE_LOADED})

\* the g_module_close calls of the record's destruction
ModulesClosed == Cardinality(DriverEvents("g_module_close"))

\* C39: whatever the number of crispy_script_execute calls on a record,
\* when the record has been destroyed every temp source it created is
\* removed, unless the preserve-source flag is set, and every module it
\* opened is closed
C39_NothingLostOverExecutes ==
    pc = "done" /\ priv # NoScript =>
        /\ (~HasFlag(priv.flags, CRISPY_FLAG_PRESERVE_SOURCE) => DOMAIN tmp = {})
        /\ ModulesClosed = ModulesOpened

\* the same for a record executed once: this holds
C39_NothingLostAfterOneExecute ==
    pc = "done" /\ priv # NoScript /\ Reexecutions = {} =>
        /\ (~HasFlag(priv.flags, CRISPY_FLAG_PRESERVE_SOURCE) => DOMAIN tmp = {})
        /\ ModulesClosed = ModulesOpened

\* two calls with the force-compile flag: the first call's temp source is
\* still there after the record's destruction
C39_TempSourceLeftBehind ==
    /\ pc = "done" /\ Reexecutions # {}
    /\ ~HasFlag(priv.flags, CRISPY_FLAG_PRESERVE_SOURCE)
    /\ DOMAIN tmp # {}

\* two calls that each opened the module, one g_module_close
C39_ModuleHandleLeftOpen ==
    /\ pc = "done" /\ Reexecutions # {}
    /\ ModulesOpened = 2 /\ ModulesClosed = 1

(***************************************************************************)
(* C40: the order of an engine's destruction                               *)
(***************************************************************************)
\* the calls of the store's destroy notifies
StoreDestructions == {k \in 1..Len(trace) : trace[k].ev = "destroy"}

\* the calls of the plugins' shutdown functions and the closing of their
\* modules
PluginTeardowns ==
    {k \in 1..Len(trace) : trace[k].ev \in {"crispy_plugin_shutdown", "g_module_close"}}

\* C40: at the destruction of an engine every destroy notify of the shared
\* store is called before any plugin's shutdown function runs and before
\* any plugin module is closed
C40_StoreDestroyedBeforePlugins ==
    engine.finalized =>
        \A j \in StoreDestructions, k \in PluginTeardowns : j < k

\* what the code does: a destroy notify is called either when a later set
\* replaced the entry, or at the destruction after every plugin was shut
\* down and its module closed
C40_PluginsFreedBeforeStore ==
    engine.finalized =>
        \A j \in StoreDestructions :
            \/ \A k \in PluginTeardowns : k < j
            \/ /\ \A k \in PluginTeardowns : j < k
               /\ trace[j - 1].ev = "set"

\* a destroy notify called after the module of a plugin was closed
C40_DestroyAfterModuleClosed ==
    /\ engine.finalized
    /\ \E j \in StoreDestructions, k \in PluginTeardowns :
          k < j /\ trace[k].ev = "g_module_close"

====
